---- MODULE Spec2Model ----
(***************************************************************************)
(* Model of woof's concurrent upload engine (internal/uploader) together   *)
(* with the provider consistency wrapper (internal/providers) and the CLI  *)
(* consumer loop (cmd/upload.go).                                          *)
(*                                                                         *)
(* Goroutines: the scanner (DefaultScanner.Scan), the dispatcher (the      *)
(* anonymous goroutine of DefaultUploader.Upload), one upload task per     *)
(* non-directory descriptor (DefaultUploader.uploadFile, calling           *)
(* ConsistencyWrapper.Upload for each provider), and the consumer          *)
(* (handleUploadOutputs).  A send on a closed channel is a Go panic, which *)
(* ends the process: it is recorded in panicked and stops every goroutine. *)
(***************************************************************************)
EXTENDS Integers, Sequences, FiniteSets, Bags, TLC

\* ---------------------------------------------------------------- bounds
MaxEntries == 2      \* descriptors the walks discover in one run
MaxPaths == 2        \* input paths handed to Upload
MaxConc == 2         \* config.Concurrency ranges over 1..MaxConc
MaxProv == 3         \* len(config.Providers) ranges over 0..MaxProv
MaxRetriesBound == 2 \* WrapperConfig.MaxRetries ranges over 0..MaxRetriesBound
MaxReads == 1        \* Read calls one provider attempt makes at most
FileChCap == 2       \* buffer of fileCh (100 in the source, scaled down)
ErrChCap == 1        \* buffer of errCh (10 in the source, scaled down)
ProgressChCap == 1   \* buffer of progressCh (100 in the source, scaled down)
MaxSize == 2         \* file sizes and advertised max sizes range over 0..MaxSize
MaxPathLen == 3      \* characters of a file path
MaxUploads == 2      \* Upload calls on one DefaultUploader
MaxNames == 2        \* names given with --providers and providers of the configuration

VARIABLES
  cmd,        \* runUpload: its position, its error, the providers it created
  cfg,        \* UploadConfig / WrapperConfig snapshot and the inputs of the run
  cancelled,  \* the caller's context (runUpload's ctx) is cancelled
  gctx,       \* the errgroup-derived context used by the engine is done
  panicked,   \* a goroutine panicked (send on a closed channel)
  scan,       \* scanner goroutine: position in Scan / walkPath
  descs,      \* descriptors put on fileCh so far; descs[id] is IsDir
  errsPut,    \* number of errors the scanner has put on errCh
  fileCh,     \* channel of descriptor ids
  errCh,      \* channel of scan errors
  disp,       \* dispatcher goroutine: position in Upload's loop; late: the
              \* descriptor in hand was received after ctx was done
  sem,        \* semaphore.Weighted: slots currently held
  gErr,       \* errgroup: first non-nil error returned by a task
  task,       \* task[id]: position of uploadFile for descriptor id
  hist,       \* hist[id]: provider calls concluded for descriptor id, in order
  resultCh,   \* channel of UploadResult
  progressCh, \* channel of ProgressInfo
  cons,       \* consumer goroutine (handleUploadOutputs)
  received    \* bag of the UploadResults the consumer has received

vars == <<cmd, cfg, cancelled, gctx, panicked, scan, descs, errsPut, fileCh, errCh,
          disp, sem, gErr, task, hist, resultCh, progressCh, cons, received>>

\* ------------------------------------------------------------ error values
\* An error is the chain of its layers, outermost first (Unwrap walks to the
\* right); nil is the empty chain.  A layer carries its kind t, the Retryable
\* flag r of a ProviderError, whether its message text contains one of the
\* heuristic words w, and the attempt count n stated in its message.
Nil == <<>>

ErrorTypes == {"Unknown", "Network", "API", "Authentication", "Quota",
               "FileTooLarge", "Unsupported", "Temporary"}

Layer(t, r, w, n) == [t |-> t, r |-> r, w |-> w, n |-> n]

Wrap(t, cause) == <<Layer(t, FALSE, FALSE, 0)>> \o cause

NewProviderError(t, r, w, n, cause) == <<Layer(t, r, w, n)>> \o cause

NewNetworkError(cause) == NewProviderError("Network", TRUE, FALSE, 0, cause)
NewAPIError(cause) == NewProviderError("API", FALSE, FALSE, 0, cause)
NewAuthenticationError(cause) == NewProviderError("Authentication", FALSE, FALSE, 0, cause)
NewQuotaErrorMut(cause) == NewProviderError("Quota", FALSE, FALSE, 0, cause)
NewQuotaError(cause) == NewProviderError("Quota", TRUE, FALSE, 0, cause)
NewFileTooLargeError(cause) == NewProviderError("FileTooLarge", FALSE, FALSE, 0, cause)
NewUnsupportedError(cause) == NewProviderError("Unsupported", FALSE, FALSE, 0, cause)
NewTemporaryError(n, cause) == NewProviderError("Temporary", TRUE, FALSE, n, cause)

Canceled == <<Layer("Canceled", FALSE, FALSE, 0)>>

\* errors.As(err, &provErr): index of the first ProviderError of the chain, 0 if none
AsProviderError(e) ==
  IF \E i \in 1..Len(e) : e[i].t \in ErrorTypes
  THEN CHOOSE i \in 1..Len(e) : /\ e[i].t \in ErrorTypes
                                /\ \A j \in 1..(i-1) : e[j].t \notin ErrorTypes
  ELSE 0

GetErrorType(e) == IF AsProviderError(e) = 0 THEN "Unknown" ELSE e[AsProviderError(e)].t

IsRetryable(e) == IF AsProviderError(e) = 0 THEN FALSE ELSE e[AsProviderError(e)].r

\* err.Error() contains "connection", "timeout" or "temporary": a ProviderError
\* prints only its own message, a %w wrapper prints the message below it too
MessageHasWord(e) ==
  \E i \in 1..Len(e) : /\ e[i].w
                       /\ \A j \in 1..(i-1) : e[j].t \notin ErrorTypes

RetryableTypesMut == {"Network", "Temporary", "Quota", "API"}
RetryableTypes == {"Network", "Temporary", "Quota"}

NonRetryableTypes == {"API", "Authentication", "FileTooLarge", "Unsupported"}

isRetryableError(e) ==
  IF e = Nil THEN FALSE
  ELSE IF GetErrorType(e) \in RetryableTypes THEN TRUE
  ELSE IF GetErrorType(e) \in NonRetryableTypes THEN FALSE
  ELSE MessageHasWord(e)

\* the errors an inner provider adapter can return from one Upload attempt
KindErrors ==
  { NewNetworkError(Nil), NewAPIError(Nil), NewAuthenticationError(Nil),
    NewQuotaError(Nil), NewFileTooLargeError(Nil), NewUnsupportedError(Nil),
    NewTemporaryError(0, Nil) }

PlainErrors == { <<Layer("plain", FALSE, w, 0)>> : w \in BOOLEAN }

\* the same error with a message that contains one of the heuristic words
WithWord(e) == [e EXCEPT ![1].w = TRUE]

\* what a kind constructor can be given as cause: nothing, an error of any
\* kind, or a plain error
Causes == {Nil} \cup KindErrors \cup PlainErrors

\* the errors the kind constructors build, over every cause and with or
\* without a heuristic word in the message
BuiltErrors ==
  LET built == UNION { { NewNetworkError(c), NewAPIError(c), NewAuthenticationError(c),
                         NewQuotaError(c), NewFileTooLargeError(c),
                         NewUnsupportedError(c), NewTemporaryError(0, c) } :
                       c \in Causes }
  IN  built \cup {WithWord(e) : e \in built}

\* ------------------------------------------------------------------ strings
\* A string is the sequence of its characters; the alphabet has a lower-case
\* and an upper-case letter, the dot, the path separator and the wildcard.
Chars == {"a", "A", ".", "/", "*"}

Lower(c) == IF c = "A" THEN "a" ELSE c

\* strings.ToLower
ToLower(str) == [i \in 1..Len(str) |-> Lower(str[i])]

\* strings.LastIndex for a one-character substring, 1-based; 0 stands for -1
LastIndex(str, c) ==
  IF \E i \in 1..Len(str) : str[i] = c
  THEN CHOOSE i \in 1..Len(str) : str[i] = c /\ \A j \in (i+1)..Len(str) : str[j] # c
  ELSE 0

\* the strings of at most n characters over the alphabet S
StringsUpTo(S, n) == UNION {[1..k -> S] : k \in 0..n}

\* ------------------------------------------------------- capability checks
\* `lastDot != -1 && lastDot < len(filePath)-1` in 0-based indices
getFileExtensionMut(filePath) ==
  LET lastDot == LastIndex(filePath, ".")
  IN  IF lastDot # 0 /\ lastDot < Len(filePath)
      THEN SubSeq(filePath, lastDot, Len(filePath))
      ELSE <<>>

getFileExtension(filePath) ==
  LET lastDot == LastIndex(filePath, ".")
  IN IF lastDot # 0 /\ lastDot < Len(filePath)
     THEN ToLower(SubSeq(filePath, lastDot, Len(filePath)))
     ELSE <<>>

SizeExceedsMut(size, maxSize) == size > maxSize
\* `maxSize > 0 && size > maxSize`
SizeExceeds(size, maxSize) == maxSize > 0 /\ size > maxSize

\* BaseProvider.GetSupportedExtensions: `for ext := range
\* bp.supportedExtensions` appends every key of the map once, in the order of
\* the map iteration, which differs from call to call
Orders(exts) ==
  { q \in [1..Cardinality(exts) -> exts] : \A e \in exts : \E i \in DOMAIN q : q[i] = e }

ExtensionSupportedMut(extensions, fileExt) ==
  Len(extensions) > 0 /\ ToLower(extensions[1]) = fileExt
\* `for _, ext := range extensions { if strings.ToLower(ext) == fileExt {
\* supported = true; break } }`
ExtensionSupported(extensions, fileExt) ==
  \E i \in 1..Len(extensions) : ToLower(extensions[i]) = fileExt

\* validateUploadCapability up to (not including) the adapter's own
\* ValidateFile: the error it returns, Nil when both checks pass.  w holds
\* the WrapperConfig flags, the file (path, size) and what the adapter
\* advertises (maxSize, exts).
\* extensions is the slice GetSupportedExtensions returned (see Orders).
validateUploadCapability(w, extensions) ==
  IF ~w.checkCaps THEN Nil
  ELSE IF SizeExceeds(w.size, w.maxSize) THEN NewFileTooLargeError(Nil)
  ELSE IF /\ Len(extensions) > 0
          /\ ~\E i \in 1..Len(extensions) : ToLower(extensions[i]) = <<"*">>
          /\ ~ExtensionSupported(extensions, getFileExtension(w.path))
  THEN NewUnsupportedError(Nil)
  ELSE Nil

\* ------------------------------------------------------------------ channels
EmptyCh == [buf |-> <<>>, closed |-> FALSE]

ResultChCap == cfg.conc * 2

\* UploadResult: FileName (0 is the empty name), success, Provider (0 is the
\* empty name), Error and URL ("" is the empty string)
ResultWith(f, ok, p, e, url) ==
  [file |-> f, ok |-> ok, prov |-> p, err |-> e, url |-> url]

Result(f, ok, p, e) == ResultWith(f, ok, p, e, IF ok THEN "U" ELSE "")

\* uploadFile's frame: provider index p, lastErr and the Result being sent; the
\* frame of ConsistencyWrapper.uploadWithRetry inside it: attempt, lastError,
\* calls made to the inner provider, reads of the current attempt, Read calls
\* of the whole wrapper call (nreads)
\* of the current wrapper call also: the durations of the retry timers set so
\* far (waits), whether ctx was done when the last wait began (waitCtx), and
\* the errors the inner provider's failed attempts returned (attemptErrs)
IdleTask == [pc |-> "idle", p |-> 0, attempt |-> 0, calls |-> 0, reads |-> 0,
             nreads |-> 0, lastError |-> Nil, lastErr |-> Nil, res |-> Result(0, FALSE, 0, Nil),
             waits |-> <<>>, waitCtx |-> FALSE, attemptErrs |-> <<>>,
             offset |-> 0, bytesRead |-> 0]

\* float64 division num / den: NaN for 0/0, +Inf for a positive numerator
\* over 0, otherwise the quotient kept as the fraction num / den
Divide(num, den) ==
  IF den = 0
  THEN [kind |-> IF num = 0 THEN "NaN" ELSE "+Inf", num |-> 0, den |-> 1]
  ELSE [kind |-> "finite", num |-> num, den |-> den]

\* float64 multiplication by a positive integer: NaN and +Inf stay
Times(x, k) == IF x.kind = "finite" THEN [x EXCEPT !.num = @ * k] ELSE x

\* Percentage: float64(bytesRead) / float64(fileInfo.Size) * 100
Percentage(bytesRead, size) == Times(Divide(bytesRead, size), 100)

\* ProgressInfo of onProgress: FileName, BytesUploaded, TotalBytes, Percentage
ProgressInfo(f, bytesRead, size) ==
  [file |-> f, bytes |-> bytesRead, total |-> size,
   pct |-> Percentage(bytesRead, size)]

ReadSizesMut(size, offset) == 1..size
\* pr.reader.Read on the file: n bytes of what is left after the offset, one
\* at least unless the end of the file is reached (n = 0 with io.EOF)
ReadSizes(size, offset) == IF offset < size THEN 1..(size - offset) ELSE {0}

\* *ProviderResponse: nil, or a response with its URL and DownloadURL ("" is
\* the empty string)
NoResponse == [nil |-> TRUE, url |-> "", dl |-> ""]

Response(url, dl) == [nil |-> FALSE, url |-> url, dl |-> dl]

\* what an inner provider can return with a nil error
Responses == {NoResponse} \cup {Response(u, d) : u \in {"", "U"}, d \in {"", "D"}}

addMetadataMut(response) == response

\* addMetadata: `if response.URL == "" && response.DownloadURL != ""` the URL
\* is set to the DownloadURL (the metadata map is not modelled)
addMetadata(response) ==
  IF response.url = "" /\ response.dl # ""
  THEN [response EXCEPT !.url = response.dl]
  ELSE response

\* validateResponse: an API error for a nil response or an empty URL
validateResponse(response) ==
  IF response.nil THEN NewAPIError(Nil)
  ELSE IF response.url = "" THEN NewAPIError(Nil)
  ELSE Nil

\* time.After(cw.config.RetryDelay * time.Duration(attempt-1)), in seconds
WaitBefore(retryDelay, attempt) == retryDelay * (attempt - 1)

\* ------------------------------------------------------------ the command
\* setDefaults: upload.retry_attempts, which runUpload copies into
\* UploadConfig.RetryAttempts
DefaultRetryAttempts == 3

\* DefaultWrapperConfig().MaxRetries, the WrapperConfig of NewFactory
DefaultMaxRetries == 3

\* the error runUpload returns: what it says (msg), and for a path error the
\* flag the offending path was given with (list) and its position there
CmdError(msg, list, index) == [msg |-> msg, list |-> list, index |-> index]

\* a nil error of runUpload
NoCmdError == CmdError("", "", 0)

\* runUpload has validated its flags, created the providers and called
\* Uploader.Upload; uploads counts the Upload calls made on the uploader,
\* sinkCloses the calls of the output handler's Close
Uploading ==
  [pc |-> "upload", err |-> NoCmdError, providerList |-> <<>>, providerMode |-> "all",
   uploads |-> 1, sinkCloses |-> 0]

\* descriptor ids: as many as the walks can discover
Files == 1..(IF MaxPaths > MaxEntries THEN MaxPaths ELSE MaxEntries)

\* ---------------------------------------------------------------- the runs
\* A run is fixed by its configuration: UploadConfig.Concurrency (conc), the
\* provider list (nProv), the WrapperConfig of the factory (autoRetry,
\* maxRetries), the input paths (nPaths; tree: a path may be a directory and a
\* walk may fail, otherwise every path is a plain file as validatePaths
\* requires of --file), the descriptors the walks can discover (maxEntries),
\* the errors the inner adapter can return (errs), whether validation can
\* reject the file (valErrs), whether file.Seek can fail (seekFails) and how
\* many Read calls one provider attempt makes (reads).  w holds the rest of
\* the WrapperConfig (preValidate = PreUploadValidation, checkCaps =
\* CheckCapabilities), the file's path and size, and what the inner adapter
\* advertises (maxSize, exts); enhance = EnhanceResponses, validateResp =
\* ValidateResponses, retryDelay = RetryDelay in seconds; resps are the
\* responses the inner adapter can return with a nil error, errResps those it
\* can return next to an error.

\* DefaultWrapperConfig with an adapter that advertises no limit and "*" and
\* returns a response with a URL on success, none on failure
DefaultW ==
  [preValidate |-> TRUE, checkCaps |-> TRUE, size |-> 1, maxSize |-> 0,
   exts |-> {<<"*">>}, path |-> <<"a">>, enhance |-> TRUE, validateResp |-> TRUE,
   retryDelay |-> 2, resps |-> {Response("U", "")}, errResps |-> {NoResponse}]

\* Directory walks: several input paths, directories and failing walks.
WalkConfigs ==
  { [conc |-> 1, nProv |-> 1, autoRetry |-> TRUE, maxRetries |-> 0, retryAttempts |-> DefaultRetryAttempts, nPaths |-> k,
     tree |-> TRUE, maxEntries |-> MaxEntries, errs |-> {NewAPIError(Nil)},
     valErrs |-> {}, seekFails |-> FALSE, reads |-> 0, w |-> DefaultW] :
       k \in 1..MaxPaths }

\* The pool: MaxPaths plain files, 1..MaxConc slots, one provider whose inner
\* adapter succeeds or fails with a non-retryable error.
PoolConfigs ==
  { [conc |-> c, nProv |-> 1, autoRetry |-> TRUE, maxRetries |-> 0, retryAttempts |-> DefaultRetryAttempts,
     nPaths |-> MaxPaths, tree |-> FALSE, maxEntries |-> MaxPaths,
     errs |-> {NewAPIError(Nil)}, valErrs |-> {}, seekFails |-> FALSE,
     reads |-> 0, w |-> DefaultW] :
       c \in 1..MaxConc }

\* Provider fallback: one file, any provider list, the inner adapter called
\* directly (auto_retry off); validation and seek can fail too.
FallbackConfigs ==
  { [conc |-> 1, nProv |-> n, autoRetry |-> FALSE, maxRetries |-> 0, retryAttempts |-> DefaultRetryAttempts, nPaths |-> 1,
     tree |-> FALSE, maxEntries |-> 1,
     errs |-> {NewAPIError(Nil), NewNetworkError(Nil)},
     valErrs |-> {NewFileTooLargeError(Nil), NewUnsupportedError(Nil)},
     seekFails |-> TRUE, reads |-> 0, w |-> DefaultW] :
       n \in 0..MaxProv }

\* the error menus of the retry runs: a retryable Network error next to one
\* error of every other kind, or a plain (non-ProviderError) error
ErrMenus ==
  { {NewNetworkError(Nil), e} : e \in KindErrors \cup PlainErrors }

\* The retry loop: one file, two providers, auto_retry on, any max_retries.
RetryConfigs ==
  { [conc |-> 1, nProv |-> 2, autoRetry |-> TRUE, maxRetries |-> r, retryAttempts |-> DefaultRetryAttempts, nPaths |-> 1,
     tree |-> FALSE, maxEntries |-> 1, errs |-> m, valErrs |-> {},
     seekFails |-> FALSE, reads |-> 0, w |-> DefaultW] :
       r \in 0..MaxRetriesBound, m \in ErrMenus }

\* Progress reporting: one file, one provider, up to MaxReads Read calls in
\* every attempt.
ProgressConfigs ==
  { [conc |-> 1, nProv |-> 1, autoRetry |-> TRUE, maxRetries |-> r, retryAttempts |-> DefaultRetryAttempts, nPaths |-> 1,
     tree |-> FALSE, maxEntries |-> 1, errs |-> {NewNetworkError(Nil)},
     valErrs |-> {}, seekFails |-> FALSE, reads |-> MaxReads, w |-> DefaultW] :
       r \in {0, MaxRetriesBound} }

\* A 0-byte file: one file, one provider, the inner adapter reads the body.
ZeroSizeConfigs ==
  { [conc |-> 1, nProv |-> 1, autoRetry |-> TRUE, maxRetries |-> 0, retryAttempts |-> DefaultRetryAttempts, nPaths |-> 1,
     tree |-> FALSE, maxEntries |-> 1, errs |-> {NewNetworkError(Nil)},
     valErrs |-> {}, seekFails |-> FALSE, reads |-> MaxReads,
     w |-> [DefaultW EXCEPT !.size = 0]] }

\* one plain file, one provider called directly, an inner adapter that
\* succeeds or fails with an API error and whose own ValidateFile accepts
OneFile ==
  [conc |-> 1, nProv |-> 1, autoRetry |-> FALSE, maxRetries |-> 0, retryAttempts |-> DefaultRetryAttempts, nPaths |-> 1,
   tree |-> FALSE, maxEntries |-> 1, errs |-> {NewAPIError(Nil)}, valErrs |-> {},
   seekFails |-> FALSE, reads |-> 0, w |-> DefaultW]

\* The size check: any file size against any advertised max size, with the
\* validation and capability flags on or off.
SizeConfigs ==
  { [OneFile EXCEPT !.w = [DefaultW EXCEPT !.preValidate = v, !.checkCaps = c,
                                           !.size = n, !.maxSize = m]] :
       v \in BOOLEAN, c \in BOOLEAN, n \in 0..MaxSize, m \in 0..MaxSize }

\* what an adapter advertises as supported extensions: the wildcard or a
\* dotted extension in either case, or the empty string
Extensions == {<<"*">>, <<".", "a">>, <<".", "A">>, <<>>}

\* file paths: the strings of 1..MaxPathLen letters, dots and separators
Paths == StringsUpTo({"a", "A", ".", "/"}, MaxPathLen) \ {<<>>}

\* The extension check: any path against any set of at most two advertised
\* extensions.
ExtConfigs ==
  { [OneFile EXCEPT !.w = [DefaultW EXCEPT !.exts = x, !.path = q]] :
       x \in {y \in SUBSET Extensions : Cardinality(y) <= 2}, q \in Paths }

\* Responses: an inner adapter that can return any response, with a nil
\* error or next to an API error, under every setting of enhance_responses,
\* validate_responses and auto_retry.
ResponseConfigs ==
  { [OneFile EXCEPT !.autoRetry = a,
                    !.w = [DefaultW EXCEPT !.enhance = e, !.validateResp = v,
                                           !.resps = Responses,
                                           !.errResps = Responses]] :
       a \in BOOLEAN, e \in BOOLEAN, v \in BOOLEAN }

\* retry_delay in seconds: none, or the 2 s of DefaultWrapperConfig
RetryDelays == {0, 2}

\* Backoff: the retry loop with any max_retries and retry_delay, against an
\* inner adapter that succeeds or fails with one of two retryable errors.
BackoffConfigs ==
  { [OneFile EXCEPT !.autoRetry = TRUE, !.maxRetries = r,
                    !.errs = {NewNetworkError(Nil), NewQuotaError(Nil)},
                    !.w = [DefaultW EXCEPT !.retryDelay = d]] :
       r \in 0..MaxRetriesBound, d \in RetryDelays }

\* Retry attempts: the wrapper NewFactory builds (DefaultWrapperConfig) under any
\* UploadConfig.RetryAttempts, against an inner adapter that succeeds or
\* fails with a retryable error.
AttemptConfigs ==
  { [OneFile EXCEPT !.autoRetry = TRUE, !.maxRetries = DefaultMaxRetries,
                    !.retryAttempts = r, !.errs = {NewNetworkError(Nil)}] :
       r \in 0..MaxRetriesBound }

\* Error kinds: the retry loop with one retry against an inner adapter that
\* succeeds or fails with one error built by a kind constructor.
ErrorConfigs ==
  { [OneFile EXCEPT !.autoRetry = TRUE, !.maxRetries = 1, !.errs = {e}] :
       e \in BuiltErrors }

\* The same wrapper validating twice: two tasks for the same path and size
\* (the same file given twice) against one provider.
TwiceConfigs ==
  { [OneFile EXCEPT !.conc = 2, !.nPaths = 2, !.maxEntries = 2,
                    !.w = [DefaultW EXCEPT !.exts = x, !.path = q]] :
       x \in {y \in SUBSET Extensions : Cardinality(y) <= 2},
       q \in {r \in Paths : Len(r) <= 2} }

\* Re-reading: one file of MaxSize bytes and two providers whose inner
\* adapters read the body before they return; file.Seek can fail.
RereadConfigs ==
  { [OneFile EXCEPT !.nProv = 2, !.seekFails = TRUE, !.reads = MaxReads,
                    !.w = [DefaultW EXCEPT !.size = MaxSize]] }

Configs ==
  WalkConfigs \cup PoolConfigs \cup FallbackConfigs \cup RetryConfigs
    \cup ProgressConfigs \cup ZeroSizeConfigs \cup RereadConfigs

Init ==
  /\ cfg \in Configs
  /\ cmd = Uploading
  /\ cancelled = FALSE
  /\ gctx = FALSE
  /\ panicked = FALSE
  /\ scan = [pc |-> "next", i |-> 1, k |-> 0, dir |-> FALSE, err |-> Nil,
            more |-> FALSE]
  /\ descs = <<>>
  /\ errsPut = 0
  /\ fileCh = EmptyCh
  /\ errCh = EmptyCh
  /\ disp = [pc |-> "select", f |-> 0, err |-> Nil, late |-> FALSE]
  /\ sem = 0
  /\ gErr = Nil
  /\ task = [f \in Files |-> IdleTask]
  /\ hist = [f \in Files |-> <<>>]
  /\ resultCh = EmptyCh
  /\ progressCh = EmptyCh
  /\ cons = "run"
  /\ received = EmptyBag

\* ------------------------------------------------------------------ scanner
\* deferred close(errCh); close(fileCh) when the Scan goroutine returns
ScanReturn ==
  /\ scan' = [scan EXCEPT !.pc = "done"]
  /\ errCh' = [errCh EXCEPT !.closed = TRUE]
  /\ fileCh' = [fileCh EXCEPT !.closed = TRUE]

\* top of `for _, path := range paths`: the non-blocking ctx check, then walkPath
ScanNext ==
  /\ ~panicked
  /\ scan.pc = "next"
  /\ IF scan.i > cfg.nPaths \/ gctx
     THEN ScanReturn
     ELSE /\ scan' = [scan EXCEPT !.pc = "walk", !.k = 0]
          /\ UNCHANGED <<errCh, fileCh>>
  /\ UNCHANGED <<cmd, cfg, cancelled, gctx, panicked, descs, errsPut, disp, sem, gErr,
                 task, hist, resultCh, progressCh, cons, received>>

\* when the callback returns an error for an entry, filepath.Walk returns at
\* once: below a directory root (k = 2) entries outside the failed subtree
\* may be left unvisited, for a failing root there are none
UnvisitedSiblings(k) == IF k = 2 THEN BOOLEAN ELSE {FALSE}

\* filepath.Walk calls the callback for the next entry of the tree, or returns.
\* scan.k: 0 nothing visited yet, 1 the root was a plain file, 2 the root is a
\* directory (only then can further entries follow).
ScanWalk ==
  /\ ~panicked
  /\ scan.pc = "walk"
  /\ \/ \* the walk is exhausted: walkPath returns nil
        /\ scan.k > 0
        /\ scan' = [scan EXCEPT !.pc = "next", !.i = @ + 1]
     \/ \* the callback gets err != nil and returns it: Walk stops with it,
        \* whether or not the directory has entries outside the failed subtree
        \* that were not visited yet (more)
        /\ cfg.tree
        /\ scan.k \in {0, 2}
        /\ \E m \in UnvisitedSiblings(scan.k) :
             scan' = [scan EXCEPT !.pc = "sendErr", !.err = Wrap("walk", Nil),
                                  !.more = m]
     \/ \* an entry: ctx check, then the descriptor is built
        /\ scan.k \in {0, 2}
        /\ Len(descs) < cfg.maxEntries
        /\ IF gctx
           THEN scan' = [scan EXCEPT !.pc = "sendErr", !.err = Canceled]
           ELSE \E d \in (IF cfg.tree THEN BOOLEAN ELSE {FALSE}) :
                  scan' = [scan EXCEPT !.pc = "sendFile", !.dir = d,
                                       !.k = IF d \/ scan.k = 2 THEN 2 ELSE 1]
  /\ UNCHANGED <<cmd, cfg, cancelled, gctx, panicked, descs, errsPut, fileCh, errCh,
                 disp, sem, gErr, task, hist, resultCh, progressCh, cons, received>>

\* select { case fileCh <- fileInfo: ; case <-ctx.Done(): return ctx.Err() }
ScanSendFile ==
  /\ ~panicked
  /\ scan.pc = "sendFile"
  /\ \/ /\ Len(fileCh.buf) < FileChCap
        /\ fileCh' = [fileCh EXCEPT !.buf = Append(@, Len(descs) + 1)]
        /\ descs' = Append(descs, scan.dir)
        /\ scan' = [scan EXCEPT !.pc = "walk"]
     \/ /\ gctx
        /\ scan' = [scan EXCEPT !.pc = "sendErr", !.err = Canceled]
        /\ UNCHANGED <<fileCh, descs>>
  /\ UNCHANGED <<cmd, cfg, cancelled, gctx, panicked, errsPut, errCh, disp, sem, gErr,
                 task, hist, resultCh, progressCh, cons, received>>

\* select { case errCh <- fmt.Errorf("failed to scan path ..."): ; case <-ctx.Done(): return }
ScanSendErr ==
  /\ ~panicked
  /\ scan.pc = "sendErr"
  /\ \/ /\ Len(errCh.buf) < ErrChCap
        /\ errCh' = [errCh EXCEPT !.buf = Append(@, Wrap("scanpath", scan.err))]
        /\ errsPut' = errsPut + 1
        /\ scan' = [scan EXCEPT !.pc = "next", !.i = @ + 1, !.err = Nil,
                                !.more = FALSE]
        /\ UNCHANGED fileCh
     \/ /\ gctx
        /\ scan' = [scan EXCEPT !.pc = "done", !.more = FALSE]
        /\ errCh' = [errCh EXCEPT !.closed = TRUE]
        /\ fileCh' = [fileCh EXCEPT !.closed = TRUE]
        /\ UNCHANGED errsPut
  /\ UNCHANGED <<cmd, cfg, cancelled, gctx, panicked, descs, disp, sem, gErr,
                 task, hist, resultCh, progressCh, cons, received>>

\* --------------------------------------------------------------- dispatcher
\* close(ch) of a channel that is already closed panics
ClosePanics(ch) == ch.closed

\* deferred close(u.progressCh); close(resultCh) when the dispatcher returns
DispReturn ==
  /\ disp' = [disp EXCEPT !.pc = "done", !.late = FALSE]
  /\ panicked' = ClosePanics(progressCh)
  /\ progressCh' = [progressCh EXCEPT !.closed = TRUE]
  /\ resultCh' = [resultCh EXCEPT !.closed = TRUE]

\* case <-ctx.Done(): return
DispCtxDone ==
  /\ ~panicked
  /\ disp.pc = "select"
  /\ gctx
  /\ DispReturn
  /\ UNCHANGED <<cmd, cfg, cancelled, gctx, scan, descs, errsPut, fileCh,
                 errCh, sem, gErr, task, hist, cons, received>>

SkippedMut(id) == ~descs[id]
SkippedNever(id) == FALSE
\* `if fileInfo.IsDir { continue }`
Skipped(id) == descs[id]

\* case fileInfo, ok := <-fileCh: closed and drained goes to AllFilesProcessed,
\* a directory is skipped, a file goes on to sem.Acquire
DispRecvFile ==
  /\ ~panicked
  /\ disp.pc = "select"
  /\ IF fileCh.buf # <<>>
     THEN /\ fileCh' = [fileCh EXCEPT !.buf = Tail(@)]
          /\ disp' = IF Skipped(Head(fileCh.buf))
                     THEN disp
                     ELSE [disp EXCEPT !.pc = "acquire", !.f = Head(fileCh.buf),
                                       !.late = gctx]
     ELSE /\ fileCh.closed
          /\ disp' = [disp EXCEPT !.pc = "wait"]
          /\ UNCHANGED fileCh
  /\ UNCHANGED <<cmd, cfg, cancelled, gctx, panicked, scan, descs, errsPut, errCh,
                 sem, gErr, task, hist, resultCh, progressCh, cons, received>>

\* case err := <-errCh with err != nil (a receive from the closed, drained
\* errCh yields nil and only repeats the loop)
DispRecvErr ==
  /\ ~panicked
  /\ disp.pc = "select"
  /\ errCh.buf # <<>>
  /\ errCh' = [errCh EXCEPT !.buf = Tail(@)]
  /\ disp' = [disp EXCEPT !.pc = "sendScanErr", !.err = Head(errCh.buf)]
  /\ UNCHANGED <<cmd, cfg, cancelled, gctx, panicked, scan, descs, errsPut, fileCh,
                 sem, gErr, task, hist, resultCh, progressCh, cons, received>>

\* resultCh <- UploadResult{Error: fmt.Errorf("scan error: %w", err)}; on an
\* unbuffered result channel (Concurrency 0) the send is a rendezvous with the
\* consumer's receive
DispSendScanErr ==
  /\ ~panicked
  /\ disp.pc = "sendScanErr"
  /\ IF ResultChCap = 0
     THEN /\ cons = "run"
          /\ received' = received (+)
                           SetToBag({Result(0, FALSE, 0, Wrap("scanerror", disp.err))})
          /\ UNCHANGED resultCh
     ELSE /\ Len(resultCh.buf) < ResultChCap
          /\ resultCh' = [resultCh EXCEPT
                 !.buf = Append(@, Result(0, FALSE, 0, Wrap("scanerror", disp.err)))]
          /\ UNCHANGED received
  /\ disp' = [disp EXCEPT !.pc = "select", !.err = Nil]
  /\ UNCHANGED <<cmd, cfg, cancelled, gctx, panicked, scan, descs, errsPut, fileCh,
                 errCh, sem, gErr, task, hist, progressCh, cons>>

SemFreeMut == sem <= cfg.conc
SemFreeNever == sem < cfg.conc - 1
\* semaphore.Weighted: a slot is free
SemFree == sem < cfg.conc

\* sem.Acquire(ctx, 1) then g.Go(uploadFile); Acquire fails once ctx is done
\* (with a free slot and a done ctx either outcome can happen)
DispAcquire ==
  /\ ~panicked
  /\ disp.pc = "acquire"
  /\ \/ /\ SemFree
        /\ sem' = sem + 1
        /\ task' = [task EXCEPT ![disp.f] = [@ EXCEPT !.pc = "open"]]
        /\ disp' = [disp EXCEPT !.pc = "select", !.f = 0, !.late = FALSE]
        /\ UNCHANGED <<resultCh, progressCh, panicked>>
     \/ /\ gctx
        /\ DispReturn
        /\ UNCHANGED <<sem, task>>
  /\ UNCHANGED <<cmd, cfg, cancelled, gctx, scan, descs, errsPut, fileCh,
                 errCh, gErr, hist, cons, received>>

ReportsFailureMut(err) == err # Nil
\* `err != nil && err != context.Canceled` on the error of g.Wait()
ReportsFailure(err) == err # Nil /\ err # Canceled

\* AllFilesProcessed: g.Wait() returns once every launched task has returned
\* (and cancels the group's context); a non-cancellation error is sent as one
\* synthetic Result; then the deferred closes run
DispWait ==
  /\ ~panicked
  /\ disp.pc = "wait"
  /\ \A f \in Files : task[f].pc \in {"idle", "done"}
  /\ gctx' = TRUE
  /\ disp' = [disp EXCEPT !.pc = "done"]
  /\ panicked' = ClosePanics(progressCh)
  /\ progressCh' = [progressCh EXCEPT !.closed = TRUE]
  /\ IF ReportsFailure(gErr)
     THEN /\ Len(resultCh.buf) < ResultChCap
          /\ resultCh' = [buf |-> Append(resultCh.buf,
                                         Result(0, FALSE, 0, Wrap("uploadfailed", gErr))),
                          closed |-> TRUE]
     ELSE resultCh' = [resultCh EXCEPT !.closed = TRUE]
  /\ UNCHANGED <<cmd, cfg, cancelled, scan, descs, errsPut, fileCh, errCh,
                 sem, gErr, task, hist, cons, received>>

\* ------------------------------------------------------------- upload tasks
\* the goroutine started by g.Go returns e: deferred sem.Release(1); errgroup
\* keeps the first non-nil error and cancels the group's context on it
TaskReturn(f, e) ==
  /\ task' = [task EXCEPT ![f] = [IdleTask EXCEPT !.pc = "done"]]
  /\ sem' = sem - 1
  /\ gErr' = IF gErr = Nil THEN e ELSE gErr
  /\ gctx' = (gctx \/ e # Nil)

FailureReturnMut(e) == e
\* "return nil // Don't fail the entire operation for one file": what uploadFile
\* returns after it has sent a failure Result carrying e
FailureReturn(e) == Nil

\* os.Open(fileInfo.Path): on failure the failure Result is built and sent
TaskOpen(f) ==
  /\ ~panicked
  /\ task[f].pc = "open"
  /\ \/ task' = [task EXCEPT ![f] = [@ EXCEPT !.pc = "send",
                    !.res = Result(f, FALSE, 0, Wrap("open", Nil))]]
     \/ task' = [task EXCEPT ![f] = [@ EXCEPT !.pc = "loop", !.p = 1]]
  /\ UNCHANGED <<cmd, cfg, cancelled, gctx, panicked, scan, descs, errsPut, fileCh,
                 errCh, disp, sem, gErr, hist, resultCh, progressCh, cons, received>>

NextProviderMut(p) == p + 2
\* `continue` in `for _, provider := range config.Providers`
NextProvider(p) == p + 1

ResultProviderMut(p) == 1
\* Provider: provider.Name() of the success Result
ResultProvider(p) == p

\* a provider's Upload has returned to uploadFile: success builds the Result,
\* failure records lastErr and continues with the next provider
LastErrMut(old, e) == IF old = Nil THEN e ELSE old
\* `lastErr = err` before `continue`
LastErr(old, e) == e

\* response and e are what provider.Upload returned, raw the response as
\* the inner provider or uploadWithRetry handed it over; last holds the error of
\* the inner provider's attempt that ended the call, when it failed
ProviderReturnedWith(f, out, e, raw, response, last) ==
  /\ hist' = [hist EXCEPT ![f] = Append(@, [prov |-> task[f].p, out |-> out,
                                            calls |-> task[f].calls,
                                            reads |-> task[f].nreads, err |-> e,
                                            raw |-> raw, resp |-> response,
                                            waits |-> task[f].waits,
                                            attemptErrs |-> task[f].attemptErrs \o last])]
  /\ task' = [task EXCEPT ![f] =
       IF e = Nil
       THEN [@ EXCEPT !.pc = "sendOk", !.attempt = 0, !.calls = 0, !.reads = 0,
                      !.nreads = 0, !.lastError = Nil, !.waits = <<>>,
                      !.waitCtx = FALSE, !.attemptErrs = <<>>, !.bytesRead = 0,
                      !.res = Result(f, TRUE, ResultProvider(task[f].p), Nil)]
       ELSE [@ EXCEPT !.pc = "loop", !.attempt = 0, !.calls = 0, !.reads = 0,
                      !.nreads = 0, !.lastError = Nil, !.waits = <<>>,
                      !.waitCtx = FALSE, !.attemptErrs = <<>>, !.bytesRead = 0,
                      !.lastErr = LastErr(@, e), !.p = NextProvider(@)]]

\* a failure before the inner provider was called: `return nil, err`
ProviderReturned(f, out, e) ==
  ProviderReturnedWith(f, out, e, NoResponse, NoResponse, <<>>)

\* the end of ConsistencyWrapper.Upload once the inner call or uploadWithRetry
\* has returned (response, err): addMetadata and validateResponse under
\* `err == nil && ... && response != nil`, then `return response, err`, or
\* `return response, validationErr`
UploadReturned(f, out, response, err, last) ==
  LET enhanced == IF err = Nil /\ cfg.w.enhance /\ ~response.nil
                  THEN addMetadata(response) ELSE response
      validationErr == IF err = Nil /\ cfg.w.validateResp /\ ~enhanced.nil
                       THEN validateResponse(enhanced) ELSE Nil
  IN  IF validationErr # Nil
      THEN ProviderReturnedWith(f, "badresponse", validationErr, response,
                                enhanced, last)
      ELSE ProviderReturnedWith(f, out, err, response, enhanced, last)

\* errors the pre-upload validation of the wrapper rejects a file with
ValidationErrors == {NewFileTooLargeError(Nil), NewUnsupportedError(Nil)}

\* top of the provider loop: all providers failed, or the ctx check, then
\* file.Seek, then provider.Upload = ConsistencyWrapper.Upload up to the first
\* call of the inner provider
\* `if cw.config.PreUploadValidation` and validateUploadCapability returns
\* an error from its capability checks
Rejected(extensions) ==
  cfg.w.preValidate /\ validateUploadCapability(cfg.w, extensions) # Nil

SeekStartMut(offset) == offset
\* file.Seek(0, io.SeekStart): the new offset of the file
SeekStart(offset) == 0

TaskLoop(f) ==
  /\ ~panicked
  /\ task[f].pc = "loop"
  /\ IF task[f].p > cfg.nProv
     THEN /\ task' = [task EXCEPT ![f] = [@ EXCEPT !.pc = "send",
                        !.res = Result(f, FALSE, 0, Wrap("allfailed", task[f].lastErr))]]
          /\ UNCHANGED <<hist, sem, gErr, gctx>>
     ELSE IF gctx
     THEN /\ TaskReturn(f, Canceled)
          /\ UNCHANGED hist
     ELSE /\ \E extensions \in Orders(cfg.w.exts) :
             \/ \* file.Seek fails: lastErr = err; continue
                /\ cfg.seekFails
                /\ ProviderReturned(f, "seek", Wrap("seek", Nil))
             \/ \* PreUploadValidation: a capability check rejects the file
                /\ Rejected(extensions)
                /\ ProviderReturned(f, "invalid",
                                    validateUploadCapability(cfg.w, extensions))
             \/ \* PreUploadValidation: the adapter's own ValidateFile rejects it
                /\ cfg.w.preValidate /\ ~Rejected(extensions)
                /\ \E e \in ValidationErrors \cap cfg.valErrs :
                     ProviderReturned(f, "invalid", e)
             \/ \* first attempt of the inner provider starts
                /\ ~Rejected(extensions)
                /\ task' = [task EXCEPT ![f] = [@ EXCEPT !.pc = "inner",
                              !.attempt = 0, !.calls = 1, !.reads = 0,
                              !.offset = SeekStart(@), !.bytesRead = 0]]
                /\ UNCHANGED hist
          /\ UNCHANGED <<sem, gErr, gctx>>
  /\ UNCHANGED <<cmd, cfg, cancelled, panicked, scan, descs, errsPut, fileCh, errCh,
                 disp, resultCh, progressCh, cons, received>>

\* progressReader.Read during the inner provider's upload: pr.reader.Read and
\* `pr.bytesRead += int64(n)`, then onProgress is called
TaskRead(f) ==
  /\ ~panicked
  /\ task[f].pc = "inner"
  /\ task[f].reads < cfg.reads
  /\ \E n \in ReadSizes(cfg.w.size, task[f].offset) :
       task' = [task EXCEPT ![f] = [@ EXCEPT !.pc = "read", !.reads = @ + 1,
                                             !.nreads = @ + 1, !.offset = @ + n,
                                             !.bytesRead = @ + n]]
  /\ UNCHANGED <<cmd, cfg, cancelled, gctx, panicked, scan, descs, errsPut, fileCh,
                 errCh, disp, sem, gErr, hist, resultCh, progressCh, cons, received>>

ProgressDefaultMut == FALSE
\* the select of onProgress has a `default:` case
ProgressDefault == TRUE

\* onProgress: select { case u.progressCh <- progress: ; default: }  -- the
\* event is dropped when the buffer is full; a send on the closed channel
\* panics; then Read returns to the provider
TaskProgress(f) ==
  /\ ~panicked
  /\ task[f].pc = "read"
  /\ IF progressCh.closed
     THEN /\ panicked' = TRUE
          /\ UNCHANGED <<progressCh, task>>
     ELSE /\ UNCHANGED panicked
          /\ Len(progressCh.buf) < ProgressChCap \/ ProgressDefault
          /\ progressCh' =
               IF Len(progressCh.buf) < ProgressChCap
               THEN [progressCh EXCEPT !.buf =
                      Append(@, ProgressInfo(f, task[f].bytesRead, cfg.w.size))]
               ELSE progressCh
          /\ task' = [task EXCEPT ![f] = [@ EXCEPT !.pc = "inner"]]
  /\ UNCHANGED <<cmd, cfg, cancelled, gctx, scan, descs, errsPut, fileCh, errCh, disp,
                 sem, gErr, hist, resultCh, cons, received>>

RetriesExhaustedMut(attempt) == attempt >= cfg.maxRetries
\* the loop condition `attempt <= cw.config.MaxRetries` has become false
RetriesExhausted(attempt) == attempt > cfg.maxRetries

ExhaustedCauseMut(lastError, err) == IF lastError = Nil THEN err ELSE lastError
\* `lastError = err` of the attempt that ended the loop is what the
\* exhaustion error wraps
ExhaustedCause(lastError, err) == err

\* cw.provider.Upload returns inside ConsistencyWrapper.Upload: directly, or
\* inside uploadWithRetry (non-retryable: return err; retryable: continue;
\* loop exhausted: NewTemporaryError("all %d retry attempts failed", lastError))
TaskInnerReturn(f) ==
  /\ ~panicked
  /\ task[f].pc = "inner"
  /\ \E e \in {Nil} \cup cfg.errs :
       IF e = Nil
       THEN \E r \in cfg.w.resps : UploadReturned(f, "ok", r, Nil, <<>>)
       ELSE IF ~cfg.autoRetry
       THEN \E r \in cfg.w.errResps : UploadReturned(f, "noretry", r, e, <<e>>)
       ELSE IF ~isRetryableError(e)
       THEN UploadReturned(f, "nonretryable", NoResponse, e, <<e>>)
       ELSE IF RetriesExhausted(task[f].attempt + 1)
       THEN UploadReturned(f, "exhausted", NoResponse,
                           NewTemporaryError(cfg.maxRetries + 1,
                                             ExhaustedCause(task[f].lastError, e)),
                           <<e>>)
       ELSE \* continue; attempt++; the select of the wait is reached
            /\ task' = [task EXCEPT ![f] =
                 [@ EXCEPT !.pc = "wait", !.attempt = @ + 1, !.lastError = e,
                           !.attemptErrs = Append(@, e), !.waitCtx = gctx,
                           !.waits = Append(@, WaitBefore(cfg.w.retryDelay,
                                                          task[f].attempt + 1))]]
            /\ UNCHANGED hist
  /\ UNCHANGED <<cmd, cfg, cancelled, gctx, panicked, scan, descs, errsPut, fileCh,
                 errCh, disp, sem, gErr, resultCh, progressCh, cons, received>>

\* the timer of the current wait can have fired: at once when its duration
\* is 0, otherwise only if ctx was not yet done when the wait began
TimerReady(f) == task[f].waits[Len(task[f].waits)] = 0 \/ ~task[f].waitCtx

\* the wait before a retry: select { case <-ctx.Done(): return Temporary error;
\* case <-time.After(...): } and then the next call of the inner provider; the
\* select takes either case when both are ready
TaskWait(f) ==
  /\ ~panicked
  /\ task[f].pc = "wait"
  /\ \/ /\ gctx
        /\ UploadReturned(f, "cancelled", NoResponse,
                          NewTemporaryError(0, Canceled), <<>>)
     \/ /\ TimerReady(f)
        /\ task' = [task EXCEPT ![f] = [@ EXCEPT !.pc = "inner", !.calls = @ + 1,
                                                 !.reads = 0]]
        /\ UNCHANGED hist
  /\ UNCHANGED <<cmd, cfg, cancelled, gctx, panicked, scan, descs, errsPut, fileCh,
                 errCh, disp, sem, gErr, resultCh, progressCh, cons, received>>

\* select { case resultCh <- result: ; case <-ctx.Done(): return ctx.Err() }; return nil
TaskSendOk(f) ==
  /\ ~panicked
  /\ task[f].pc = "sendOk"
  /\ \/ /\ resultCh.closed
        /\ panicked' = TRUE
        /\ UNCHANGED <<resultCh, task, sem, gErr, gctx>>
     \/ /\ ~resultCh.closed
        /\ Len(resultCh.buf) < ResultChCap
        /\ resultCh' = [resultCh EXCEPT !.buf = Append(@, task[f].res)]
        /\ TaskReturn(f, Nil)
        /\ UNCHANGED panicked
     \/ /\ gctx
        /\ TaskReturn(f, Canceled)
        /\ UNCHANGED <<resultCh, panicked>>
  /\ UNCHANGED <<cmd, cfg, cancelled, scan, descs, errsPut, fileCh, errCh, disp, hist,
                 progressCh, cons, received>>

\* resultCh <- UploadResult{... Error: ...}; return nil  (open failure, all
\* providers failed): a plain blocking send
TaskSend(f) ==
  /\ ~panicked
  /\ task[f].pc = "send"
  /\ \/ /\ resultCh.closed
        /\ panicked' = TRUE
        /\ UNCHANGED <<resultCh, task, sem, gErr, gctx>>
     \/ /\ ~resultCh.closed
        /\ Len(resultCh.buf) < ResultChCap
        /\ resultCh' = [resultCh EXCEPT !.buf = Append(@, task[f].res)]
        /\ TaskReturn(f, FailureReturn(task[f].res.err))
        /\ UNCHANGED panicked
  /\ UNCHANGED <<cmd, cfg, cancelled, scan, descs, errsPut, fileCh, errCh, disp, hist,
                 progressCh, cons, received>>

\* ------------------------------------------------------------------ consumer
\* the calls of outputHandler.Close() that runUpload makes when
\* handleUploadOutputs has returned: `return handleUploadOutputs(...)`
CloseCalls == 0

\* case result, ok := <-resultCh: HandleResult (received holds the Results
\* handed to the sink), or return nil once closed, with which runUpload returns
ConsRecvResult ==
  /\ ~panicked
  /\ cons = "run"
  /\ IF resultCh.buf # <<>>
     THEN /\ received' = received (+) SetToBag({Head(resultCh.buf)})
          /\ resultCh' = [resultCh EXCEPT !.buf = Tail(@)]
          /\ UNCHANGED <<cons, cmd>>
     ELSE /\ resultCh.closed
          /\ cons' = "done"
          /\ cmd' = [cmd EXCEPT !.sinkCloses = @ + CloseCalls]
          /\ UNCHANGED <<received, resultCh>>
  /\ UNCHANGED <<cfg, cancelled, gctx, panicked, scan, descs, errsPut, fileCh,
                 errCh, disp, sem, gErr, task, hist, progressCh>>

\* case progress, ok := <-progressCh with a value (closed and drained only
\* repeats the loop)
ConsRecvProgress ==
  /\ ~panicked
  /\ cons = "run"
  /\ progressCh.buf # <<>>
  /\ progressCh' = [progressCh EXCEPT !.buf = Tail(@)]
  /\ UNCHANGED <<cmd, cfg, cancelled, gctx, panicked, scan, descs, errsPut, fileCh,
                 errCh, disp, sem, gErr, task, hist, resultCh, cons, received>>

\* case <-ctx.Done(): return ctx.Err()
ConsCtxDone ==
  /\ ~panicked
  /\ cons = "run"
  /\ cancelled
  /\ cons' = "done"
  /\ UNCHANGED <<cmd, cfg, cancelled, gctx, panicked, scan, descs, errsPut, fileCh,
                 errCh, disp, sem, gErr, task, hist, resultCh, progressCh, received>>

\* --------------------------------------------------------------- environment
\* SIGINT / SIGTERM: cancel() of runUpload's context, which the errgroup
\* context derives from
Cancel ==
  /\ ~panicked
  /\ ~cancelled
  /\ disp.pc # "done"
  /\ cancelled' = TRUE
  /\ gctx' = TRUE
  /\ UNCHANGED <<cmd, cfg, panicked, scan, descs, errsPut, fileCh, errCh, disp, sem,
                 gErr, task, hist, resultCh, progressCh, cons, received>>

Next ==
  \/ ScanNext
  \/ ScanWalk
  \/ ScanSendFile
  \/ ScanSendErr
  \/ DispCtxDone
  \/ DispRecvFile
  \/ DispRecvErr
  \/ DispSendScanErr
  \/ DispAcquire
  \/ DispWait
  \/ \E f \in Files : TaskOpen(f)
  \/ \E f \in Files : TaskLoop(f)
  \/ \E f \in Files : TaskRead(f)
  \/ \E f \in Files : TaskProgress(f)
  \/ \E f \in Files : TaskInnerReturn(f)
  \/ \E f \in Files : TaskWait(f)
  \/ \E f \in Files : TaskSendOk(f)
  \/ \E f \in Files : TaskSend(f)
  \/ ConsRecvResult
  \/ ConsRecvProgress
  \/ ConsCtxDone
  \/ Cancel

Spec == Init /\ [][Next]_vars

\* ----------------------------------------------------------------- fairness
\* The Go scheduler runs every runnable goroutine, a select takes a case that
\* stays ready, the walk of a finite tree ends and every provider call
\* returns.  Nothing forces a signal (Cancel), a failure or a Read.
EngineFairness ==
  /\ WF_vars(ScanNext)
  /\ WF_vars(ScanWalk)
  /\ WF_vars(ScanSendFile)
  /\ WF_vars(ScanSendErr)
  /\ WF_vars(DispCtxDone)
  /\ WF_vars(DispRecvFile)
  /\ WF_vars(DispRecvErr)
  /\ WF_vars(DispSendScanErr)
  /\ WF_vars(DispAcquire)
  /\ WF_vars(DispWait)
  /\ \A f \in Files : WF_vars(TaskOpen(f))
  /\ \A f \in Files : WF_vars(TaskLoop(f))
  /\ \A f \in Files : WF_vars(TaskProgress(f))
  /\ \A f \in Files : WF_vars(TaskInnerReturn(f))
  /\ \A f \in Files : WF_vars(TaskWait(f))
  /\ \A f \in Files : WF_vars(TaskSendOk(f))
  /\ \A f \in Files : WF_vars(TaskSend(f))
  /\ WF_vars(ConsRecvResult)
  /\ WF_vars(ConsCtxDone)

\* the consumer also takes the progress case of its select when it stays ready
Fairness == EngineFairness /\ WF_vars(ConsRecvProgress)

LiveSpec == Init /\ [][Next]_vars /\ Fairness

\* A run in which no signal arrives: cancel() is never called, so the caller's
\* context is never done and the ctx.Done() cases of the dispatcher's and the
\* consumer's select are never ready.
NextUncancelled ==
  \/ ScanNext
  \/ ScanWalk
  \/ ScanSendFile
  \/ ScanSendErr
  \/ DispRecvFile
  \/ DispRecvErr
  \/ DispSendScanErr
  \/ DispAcquire
  \/ DispWait
  \/ \E f \in Files : TaskOpen(f)
  \/ \E f \in Files : TaskLoop(f)
  \/ \E f \in Files : TaskRead(f)
  \/ \E f \in Files : TaskProgress(f)
  \/ \E f \in Files : TaskInnerReturn(f)
  \/ \E f \in Files : TaskWait(f)
  \/ \E f \in Files : TaskSendOk(f)
  \/ \E f \in Files : TaskSend(f)
  \/ ConsRecvResult
  \/ ConsRecvProgress

UncancelledSpec == Init /\ [][NextUncancelled]_vars /\ Fairness

\* An uncancelled run whose consumer never receives from the progress channel.
NextProgressUnread ==
  \/ ScanNext
  \/ ScanWalk
  \/ ScanSendFile
  \/ ScanSendErr
  \/ DispRecvFile
  \/ DispRecvErr
  \/ DispSendScanErr
  \/ DispAcquire
  \/ DispWait
  \/ \E f \in Files : TaskOpen(f)
  \/ \E f \in Files : TaskLoop(f)
  \/ \E f \in Files : TaskRead(f)
  \/ \E f \in Files : TaskProgress(f)
  \/ \E f \in Files : TaskInnerReturn(f)
  \/ \E f \in Files : TaskWait(f)
  \/ \E f \in Files : TaskSendOk(f)
  \/ \E f \in Files : TaskSend(f)
  \/ ConsRecvResult

\* its runs: the progress-reporting uploads, next to the pool and the walk of
\* one input path, whose uploads read nothing
InitProgressUnread ==
  /\ Init
  /\ cfg \in {c \in WalkConfigs : c.nPaths = 1} \cup PoolConfigs
               \cup ProgressConfigs \cup ZeroSizeConfigs

ProgressUnreadSpec == InitProgressUnread /\ [][NextProgressUnread]_vars /\ EngineFairness

\* ------------------------------------------ Upload called again on the uploader
\* The caller calls Upload on the same DefaultUploader once the previous call's
\* dispatcher has returned and its Results were received: a new result
\* channel, semaphore, errgroup and scan, a new consumer, and u.progressCh as
\* the previous call left it.
UploadAgain ==
  /\ ~panicked
  /\ cmd.uploads < MaxUploads
  /\ disp.pc = "done" /\ scan.pc = "done"
  /\ \A f \in Files : task[f].pc \in {"idle", "done"}
  /\ resultCh.buf = <<>>
  /\ cmd' = [cmd EXCEPT !.uploads = @ + 1]
  /\ gctx' = FALSE
  /\ scan' = [pc |-> "next", i |-> 1, k |-> 0, dir |-> FALSE, err |-> Nil,
              more |-> FALSE]
  /\ descs' = <<>>
  /\ errsPut' = 0
  /\ fileCh' = EmptyCh
  /\ errCh' = EmptyCh
  /\ disp' = [pc |-> "select", f |-> 0, err |-> Nil, late |-> FALSE]
  /\ sem' = 0
  /\ gErr' = Nil
  /\ task' = [f \in Files |-> IdleTask]
  /\ hist' = [f \in Files |-> <<>>]
  /\ resultCh' = EmptyCh
  /\ cons' = "run"
  /\ received' = EmptyBag
  /\ UNCHANGED <<cfg, cancelled, panicked, progressCh>>

\* uncancelled runs of Upload, one after the other on one uploader
NextReuse ==
  \/ NextUncancelled
  \/ UploadAgain

ReuseSpec == InitProgressUnread /\ [][NextReuse]_vars

\* ------------------------------------------- a non-positive Concurrency
\* Upload called with config.Concurrency <= 0: directory walks as in
\* WalkConfigs.  make(chan UploadResult, config.Concurrency*2) panics for a
\* negative size, before anything else is set up; with 0 the result channel
\* is unbuffered and the semaphore has no slot, so no task is ever launched.
NonPositiveConfigs ==
  { [conc |-> c, nProv |-> 1, autoRetry |-> TRUE, maxRetries |-> 0, retryAttempts |-> DefaultRetryAttempts, nPaths |-> k,
     tree |-> TRUE, maxEntries |-> MaxEntries, errs |-> {NewAPIError(Nil)},
     valErrs |-> {}, seekFails |-> FALSE, reads |-> 0, w |-> DefaultW] :
       c \in {-1, 0}, k \in 1..MaxPaths }

InitNonPositive ==
  /\ cfg \in NonPositiveConfigs
  /\ cmd = Uploading
  /\ cancelled = FALSE
  /\ gctx = FALSE
  /\ panicked = (cfg.conc * 2 < 0)
  /\ scan = [pc |-> "next", i |-> 1, k |-> 0, dir |-> FALSE, err |-> Nil,
            more |-> FALSE]
  /\ descs = <<>>
  /\ errsPut = 0
  /\ fileCh = EmptyCh
  /\ errCh = EmptyCh
  /\ disp = [pc |-> "select", f |-> 0, err |-> Nil, late |-> FALSE]
  /\ sem = 0
  /\ gErr = Nil
  /\ task = [f \in Files |-> IdleTask]
  /\ hist = [f \in Files |-> <<>>]
  /\ resultCh = EmptyCh
  /\ progressCh = EmptyCh
  /\ cons = "run"
  /\ received = EmptyBag

\* the scanner, the dispatch loop, the consumer and the signal
NextNonPositive ==
  \/ ScanNext
  \/ ScanWalk
  \/ ScanSendFile
  \/ ScanSendErr
  \/ DispCtxDone
  \/ DispRecvFile
  \/ DispRecvErr
  \/ DispSendScanErr
  \/ DispAcquire
  \/ DispWait
  \/ ConsRecvResult
  \/ ConsCtxDone
  \/ Cancel

NonPositiveFairness ==
  /\ WF_vars(ScanNext)
  /\ WF_vars(ScanWalk)
  /\ WF_vars(ScanSendFile)
  /\ WF_vars(ScanSendErr)
  /\ WF_vars(DispCtxDone)
  /\ WF_vars(DispRecvFile)
  /\ WF_vars(DispRecvErr)
  /\ WF_vars(DispSendScanErr)
  /\ WF_vars(DispAcquire)
  /\ WF_vars(DispWait)
  /\ WF_vars(ConsRecvResult)
  /\ WF_vars(ConsCtxDone)

NonPositiveSpec == InitNonPositive /\ [][NextNonPositive]_vars /\ NonPositiveFairness

\* ------------------------------------------------- the wrapper calls of a task
\* The calls of ConsistencyWrapper.Upload that one upload task makes, for
\* every file and adapter of WrapperConfigs: the run starts where the scanner
\* has emitted the files and returned, and the dispatcher has launched their
\* tasks, which have opened the files.
WrapperConfigs ==
  SizeConfigs \cup ExtConfigs \cup ResponseConfigs \cup BackoffConfigs
    \cup AttemptConfigs \cup ErrorConfigs \cup TwiceConfigs

WrapperInit ==
  /\ cfg \in WrapperConfigs
  /\ cmd = Uploading
  /\ cancelled = FALSE
  /\ gctx = FALSE
  /\ panicked = FALSE
  /\ scan = [pc |-> "done", i |-> cfg.nPaths + 1, k |-> 1, dir |-> FALSE,
             err |-> Nil, more |-> FALSE]
  /\ descs = [f \in 1..cfg.nPaths |-> FALSE]
  /\ errsPut = 0
  /\ fileCh = [buf |-> <<>>, closed |-> TRUE]
  /\ errCh = [buf |-> <<>>, closed |-> TRUE]
  /\ disp = [pc |-> "select", f |-> 0, err |-> Nil, late |-> FALSE]
  /\ sem = cfg.nPaths
  /\ gErr = Nil
  /\ task = [f \in Files |-> IF f <= cfg.nPaths
                              THEN [IdleTask EXCEPT !.pc = "loop", !.p = 1]
                              ELSE IdleTask]
  /\ hist = [f \in Files |-> <<>>]
  /\ resultCh = EmptyCh
  /\ progressCh = EmptyCh
  /\ cons = "run"
  /\ received = EmptyBag

WrapperNext ==
  \/ \E f \in Files : TaskLoop(f)
  \/ \E f \in Files : TaskInnerReturn(f)
  \/ \E f \in Files : TaskWait(f)
  \/ Cancel

WrapperSpec == WrapperInit /\ [][WrapperNext]_vars

\* ------------------------------------------------- runUpload before Upload
\* What os.Stat and the file system say about a path: a regular file, a
\* directory, nothing there, or a file / directory that exists below a
\* directory the process may not search, so that os.Stat fails with an error
\* other than "not exist".
PathKinds == {"file", "dir", "missing", "hiddenFile", "hiddenDir"}

Exists(p) == p # "missing"

IsDir(p) == p \in {"dir", "hiddenDir"}

\* os.Stat(path): the error kind ("" for nil) and FileInfo.IsDir
Stat(p) ==
  CASE p = "missing" -> [err |-> "notExist", isDir |-> FALSE]
    [] p \in {"hiddenFile", "hiddenDir"} -> [err |-> "permission", isDir |-> FALSE]
    [] OTHER -> [err |-> "", isDir |-> p = "dir"]

\* the body of validatePaths' first loop for one --file path: "" when it passes
CheckFile(p) ==
  LET st == Stat(p)
  IN  IF st.err # ""
        THEN IF st.err = "notExist" THEN "file does not exist"
                                    ELSE "error checking file"
        ELSE IF st.isDir THEN "is a directory, but --file flag requires a file"
                         ELSE ""

\* the body of validatePaths' second loop for one --folder path
CheckFolder(p) ==
  LET st == Stat(p)
  IN  IF st.err # ""
        THEN IF st.err = "notExist" THEN "directory does not exist"
                                    ELSE "error checking directory"
        ELSE IF ~st.isDir THEN "is a file, but --folder/-d flag requires a directory"
                          ELSE ""

\* one loop of validatePaths from position i on: the error of the first path
\* that fails its check
RECURSIVE CheckPaths(_, _, _)
CheckPaths(paths, list, i) ==
  IF i > Len(paths) THEN NoCmdError
  ELSE LET msg == IF list = "files" THEN CheckFile(paths[i])
                                     ELSE CheckFolder(paths[i])
       IN  IF msg # "" THEN CmdError(msg, list, i)
                       ELSE CheckPaths(paths, list, i + 1)

validatePathsMut(files, folders) ==
  LET e == CheckPaths(folders, "folders", 1)
  IN  IF e # NoCmdError THEN e ELSE CheckPaths(files, "files", 1)

validatePaths(files, folders) ==
  LET e == CheckPaths(files, "files", 1)
  IN  IF e # NoCmdError THEN e ELSE CheckPaths(folders, "folders", 1)

\* provider names as the user or the configuration file can spell them
ProviderNames == {"buzzheavier", "BuzzHeavier", "gofile", "dropbox"}

\* strings.ToLower on the names of ProviderNames
LowerName(name) == IF name = "BuzzHeavier" THEN "buzzheavier" ELSE name

\* the names CreateProvider has a case for
KnownProviders == {"buzzheavier", "gofile"}

\* config.ProviderConfig: Name and Enabled
ProviderConfig(name, enabled) == [name |-> name, enabled |-> enabled]

\* setDefaults: the providers of a run without a configuration file
DefaultProviders == <<ProviderConfig("buzzheavier", FALSE)>>

\* what the factory functions return: the providers (by Name()) and the error
Created(list, err) == [list |-> list, err |-> err]

\* Factory.CreateProvider: the provider for a configuration, or an error
CreateProvider(providerConfig) ==
  IF LowerName(providerConfig.name) \in KnownProviders
    THEN Created(<<LowerName(providerConfig.name)>>, NoCmdError)
    ELSE Created(<<>>, CmdError("unknown provider", "", 0))

\* Factory.CreateProviders: the loop from position i on with the providers
\* created so far
RECURSIVE CreateProvidersFrom(_, _, _)
CreateProvidersFrom(providerConfigs, i, providers) ==
  IF i > Len(providerConfigs) THEN Created(providers, NoCmdError)
  ELSE IF ~providerConfigs[i].enabled
         THEN CreateProvidersFrom(providerConfigs, i + 1, providers)
         ELSE LET c == CreateProvider(providerConfigs[i])
              IN  IF c.err # NoCmdError THEN Created(<<>>, c.err)
                  ELSE CreateProvidersFrom(providerConfigs, i + 1, providers \o c.list)

CreateProviders(providerConfigs) == CreateProvidersFrom(providerConfigs, 1, <<>>)

\* CreateProvidersFromNames' selection loop from position i on: the selected
\* configurations and what is left of nameSet
RECURSIVE SelectConfigs(_, _, _, _)
SelectConfigs(allConfigs, i, nameSet, selectedConfigs) ==
  IF i > Len(allConfigs) THEN [selected |-> selectedConfigs, nameSet |-> nameSet]
  ELSE IF LowerName(allConfigs[i].name) \in nameSet
         THEN SelectConfigs(allConfigs, i + 1,
                            nameSet \ {LowerName(allConfigs[i].name)},
                            Append(selectedConfigs, allConfigs[i]))
         ELSE SelectConfigs(allConfigs, i + 1, nameSet, selectedConfigs)

CreateProvidersFromNames(providerNames, allConfigs) ==
  LET nameSet == {LowerName(providerNames[i]) : i \in 1..Len(providerNames)}
      sel == SelectConfigs(allConfigs, 1, nameSet, <<>>)
  IN  IF sel.nameSet # {} THEN Created(<<>>, CmdError("unknown providers", "", 0))
                          ELSE CreateProviders(sel.selected)

\* Factory.CreateAllProviders: every provider with default settings
CreateAllProviders == Created(<<"buzzheavier", "gofile">>, NoCmdError)

\* Config.GetEnabledProviders
RECURSIVE GetEnabledProviders(_)
GetEnabledProviders(providers) ==
  IF providers = <<>> THEN <<>>
  ELSE (IF Head(providers).enabled THEN <<Head(providers)>> ELSE <<>>)
         \o GetEnabledProviders(Tail(providers))

\* sequences of at most n elements of S
SeqsUpTo(S, n) == UNION { [1..k -> S] : k \in 0..n }

\* The flags and the file system of a command line: the expanded --file
\* paths and the --folder paths, each with what the file system holds there.
PathConfigs ==
  { [files |-> fs, folders |-> ds, useAll |-> TRUE, providers |-> <<>>,
     configProviders |-> DefaultProviders] :
       fs \in SeqsUpTo(PathKinds, MaxPaths), ds \in SeqsUpTo(PathKinds, MaxPaths) }

\* The provider selection of a command line with one valid file: --all,
\* --providers, and the providers of the loaded configuration (the defaults
\* without a configuration file).
SelectionConfigs ==
  { [files |-> <<"file">>, folders |-> <<>>, useAll |-> a, providers |-> ns,
     configProviders |-> cs] :
       a \in BOOLEAN, ns \in SeqsUpTo(ProviderNames, MaxNames),
       cs \in SeqsUpTo({ProviderConfig(n, e) : n \in ProviderNames \ {"BuzzHeavier"},
                                                 e \in BOOLEAN}, MaxNames) }

CommandConfigs == PathConfigs \cup SelectionConfigs

\* runUpload returns err
CmdFail(err) == cmd' = [cmd EXCEPT !.pc = "failed", !.err = err]

InitCommand ==
  /\ cfg \in CommandConfigs
  /\ cmd = [Uploading EXCEPT !.pc = "flags", !.uploads = 0]
  /\ cancelled = FALSE
  /\ gctx = FALSE
  /\ panicked = FALSE
  /\ scan = [pc |-> "done", i |-> 1, k |-> 1, dir |-> FALSE, err |-> Nil, more |-> FALSE]
  /\ descs = [f \in {} |-> FALSE]
  /\ errsPut = 0
  /\ fileCh = [buf |-> <<>>, closed |-> TRUE]
  /\ errCh = [buf |-> <<>>, closed |-> TRUE]
  /\ disp = [pc |-> "select", f |-> 0, err |-> Nil, late |-> FALSE]
  /\ sem = 0
  /\ gErr = Nil
  /\ task = [f \in Files |-> IdleTask]
  /\ hist = [f \in Files |-> <<>>]
  /\ resultCh = [buf |-> <<>>, closed |-> FALSE]
  /\ progressCh = [buf |-> <<>>, closed |-> FALSE]
  /\ cons = "run"
  /\ received = EmptyBag

Engine ==
  <<cfg, cancelled, gctx, panicked, scan, descs, errsPut, fileCh, errCh, disp,
    sem, gErr, task, hist, resultCh, progressCh, cons, received>>

\* runUpload: "no files or folders specified"
CmdCheckFlags ==
  /\ cmd.pc = "flags"
  /\ IF Len(cfg.files) = 0 /\ Len(cfg.folders) = 0
       THEN CmdFail(CmdError("no files or folders specified", "", 0))
       ELSE cmd' = [cmd EXCEPT !.pc = "validate"]
  /\ UNCHANGED Engine

\* runUpload: validatePaths(expandedFiles, folders)
CmdValidatePaths ==
  /\ cmd.pc = "validate"
  /\ LET err == validatePaths(cfg.files, cfg.folders)
     IN  IF err # NoCmdError THEN CmdFail(err)
                             ELSE cmd' = [cmd EXCEPT !.pc = "providers"]
  /\ UNCHANGED Engine

\* runUpload: the provider list by --all, by --providers or from the enabled
\* providers of the configuration, and the "no providers available" error
CmdCreateProviders ==
  /\ cmd.pc = "providers"
  /\ LET mode == IF cfg.useAll THEN "all"
                 ELSE IF Len(cfg.providers) > 0 THEN "specified" ELSE "enabled"
         c == CASE mode = "all" -> CreateAllProviders
                [] mode = "specified" ->
                     CreateProvidersFromNames(cfg.providers, cfg.configProviders)
                [] OTHER -> CreateProviders(GetEnabledProviders(cfg.configProviders))
     IN  IF c.err # NoCmdError
           THEN cmd' = [cmd EXCEPT !.pc = "failed", !.err = c.err, !.providerMode = mode]
           ELSE IF Len(c.list) = 0
             THEN cmd' = [cmd EXCEPT !.pc = "failed", !.providerMode = mode,
                                     !.err = CmdError("no providers available", "", 0)]
             ELSE cmd' = [cmd EXCEPT !.pc = "upload", !.providerMode = mode,
                                     !.providerList = c.list, !.uploads = 1]
  /\ UNCHANGED Engine

NextCommand ==
  \/ CmdCheckFlags
  \/ CmdValidatePaths
  \/ CmdCreateProviders

CommandSpec == InitCommand /\ [][NextCommand]_vars

\* ------------------------------------------------------ derived observations
\* the result stream: what the consumer has received plus what is still buffered
BufCount(r) == Cardinality({i \in 1..Len(resultCh.buf) : resultCh.buf[i] = r})

OnStream(r) == CopiesIn(r, received) + BufCount(r)

StreamResults == BagToSet(received) \cup {resultCh.buf[i] : i \in 1..Len(resultCh.buf)}

\* number of Results on the stream that carry descriptor f's FileName
ResultsFor(f) ==
  LET rs == {r \in StreamResults : r.file = f}
      RECURSIVE Sum(_)
      Sum(S) == IF S = {} THEN 0
                ELSE LET r == CHOOSE x \in S : TRUE IN OnStream(r) + Sum(S \ {r})
  IN Sum(rs)

BothClosed == resultCh.closed /\ progressCh.closed

\* upload tasks launched and not yet returned
Running == {f \in Files : task[f].pc \notin {"idle", "done"}}

AllReturned == scan.pc = "done" /\ disp.pc = "done" /\ Running = {}

\* non-directory descriptors the scanner has produced
Produced == {f \in 1..Len(descs) : ~descs[f]}

\* Results on the stream built from a scan error
ScanErrorResults ==
  {r \in StreamResults : r.file = 0 /\ r.err # Nil /\ r.err[1].t = "scanerror"}

\* provider calls of descriptor f that were made and failed / succeeded
Failed(h) == h.out \in {"invalid", "noretry", "nonretryable", "exhausted", "cancelled"}

\* providers 1..k-1 failed and provider k succeeded for descriptor f
SucceededAt(f, k) ==
  /\ k \in 1..Len(hist[f])
  /\ hist[f][k].out = "ok"
  /\ \A i \in 1..(k-1) : Failed(hist[f][i])

\* ------------------------------------------------------------------- claims

\* C1: in a run that is not cancelled, no descriptor ever has two Results on
\* the result stream, and once both channels are closed every non-directory
\* descriptor the scanner produced has exactly one Result carrying its name.
C1_OneResultPerFile ==
  ~cancelled =>
    /\ \A f \in Files : ResultsFor(f) <= 1
    /\ BothClosed => \A f \in Produced : ResultsFor(f) = 1

\* two files of one uncancelled, completed run: one failed to open, the other
\* was uploaded
C1_Witness ==
  /\ BothClosed /\ ~cancelled
  /\ \E f, g \in Produced :
       /\ OnStream(Result(f, FALSE, 0, Wrap("open", Nil))) = 1
       /\ \E p \in 1..MaxProv : OnStream(Result(g, TRUE, p, Nil)) = 1

\* C2 as stated: whenever providers 1..k-1 failed and provider k succeeded for
\* a file, the providers were invoked in list order 1..k, none after k, and
\* the task, once returned, has emitted the success Result naming provider k.
C2_Claim ==
  \A f \in Files : \A k \in 1..Len(hist[f]) :
    SucceededAt(f, k) =>
      /\ \A i \in 1..k : hist[f][i].prov = i
      /\ Len(hist[f]) = k /\ task[f].pc \in {"sendOk", "done"}
      /\ \A r \in StreamResults : r.file = f => r = Result(f, TRUE, k, Nil)
      /\ task[f].pc = "done" => OnStream(Result(f, TRUE, k, Nil)) = 1

\* C2 amended: the same, except that the success Result is only guaranteed to
\* have been emitted when the run was not cancelled; whenever a Result is
\* emitted for the file it is the success Result naming provider k.
C2_FallbackOrder ==
  \A f \in Files : \A k \in 1..Len(hist[f]) :
    SucceededAt(f, k) =>
      /\ \A i \in 1..k : hist[f][i].prov = i
      /\ Len(hist[f]) = k /\ task[f].pc \in {"sendOk", "done"}
      /\ \A r \in StreamResults : r.file = f => r = Result(f, TRUE, k, Nil)
      /\ (task[f].pc = "done" /\ ~cancelled) => OnStream(Result(f, TRUE, k, Nil)) = 1

\* the first of three providers failed, the second succeeded, its Result is
\* out and the task returned without calling the third
C2_Witness ==
  \E f \in Files :
    /\ SucceededAt(f, 2)
    /\ cfg.nProv > 2
    /\ task[f].pc = "done"
    /\ OnStream(Result(f, TRUE, 2, Nil)) = 1

\* C3: at every instant at most config.Concurrency upload tasks are launched
\* and not yet returned, so at most that many provider Upload calls execute;
\* with concurrency 1 at most one.
C3_ConcurrencyBound ==
  /\ Cardinality(Running) <= cfg.conc
  /\ Cardinality({f \in Files : task[f].pc \in {"inner", "read", "wait"}}) <= cfg.conc

\* concurrency 1: one upload executes while the next file waits for the slot
C3_Witness ==
  /\ cfg.conc = 1
  /\ disp.pc = "acquire"
  /\ \E f \in Files : task[f].pc = "inner"

\* C4 as stated: no goroutine ever sends on a closed channel, and the result
\* and progress channels are closed only after every launched task returned.
C4_Claim ==
  /\ ~panicked
  /\ (resultCh.closed \/ progressCh.closed) => Running = {}

\* C5: in a run that is not cancelled a failing file never cancels the shared
\* context nor makes the task group report an error, and when the channels are
\* closed every other non-directory descriptor has its own Result.
C5_FailureIsolated ==
  ~cancelled =>
    /\ gErr = Nil
    /\ gctx => disp.pc = "done"
    /\ \A f \in Produced :
         (BothClosed /\ \E r \in StreamResults : r.file = f /\ ~r.ok)
           => \A g \in Produced \ {f} : ResultsFor(g) = 1

\* a file whose only provider failed, and a file discovered after it that was
\* still uploaded
C5_Witness ==
  /\ BothClosed /\ ~cancelled
  /\ \E f, g \in Produced :
       /\ f < g
       /\ \E r \in StreamResults : r.file = f /\ ~r.ok /\ r.err[1].t = "allfailed"
       /\ \E r \in StreamResults : r.file = g /\ r.ok

\* C6: a run that is never cancelled, whose provider calls return and whose
\* consumer keeps receiving, terminates: the scan is exhausted, every launched
\* task returns and both channels are closed.
C6_Terminates == <>(BothClosed /\ AllReturned)

\* an uncancelled run that has ended with a Result delivered
C6_Witness ==
  /\ BothClosed /\ AllReturned /\ ~cancelled
  /\ cons = "done"
  /\ \E f \in Produced : ResultsFor(f) = 1

\* C7 as stated (a panic, the subject of C4, set aside): once the context is
\* cancelled both channels are eventually closed and every goroutine of the
\* engine returns.
C7_Claim == cancelled ~> (panicked \/ (BothClosed /\ AllReturned))

\* C8 as stated: in a run that is not cancelled, when the result channel is
\* closed every error the scanner put on its error sequence is on the result
\* stream as one Result with empty FileName.
C8_Claim ==
  (resultCh.closed /\ ~cancelled) =>
    /\ Cardinality(ScanErrorResults) = errsPut
    /\ \A r \in ScanErrorResults : OnStream(r) = 1

\* C9: with auto_retry and max_retries = r, a wrapper call never invokes the
\* inner provider more than r+1 times, and it reports retry exhaustion only
\* after exactly r+1 invocations that all failed with a retryable error; a
\* failure of retryable kind never ends the call earlier, only a done context
\* does.
C9_RetryBound ==
  \A f \in Files :
    /\ task[f].calls <= cfg.maxRetries + 1
    /\ task[f].pc = "wait" => task[f].calls = task[f].attempt
    /\ \A i \in 1..Len(hist[f]) :
         hist[f][i].out = "exhausted" =>
           /\ cfg.autoRetry
           /\ hist[f][i].calls = cfg.maxRetries + 1
           /\ GetErrorType(hist[f][i].err) = "Temporary"
    /\ \A i \in 1..Len(hist[f]) :
         /\ hist[f][i].out = "cancelled" => gctx
         /\ hist[f][i].out = "nonretryable"
              => GetErrorType(hist[f][i].err) \notin {"Network", "Temporary", "Quota"}

\* a wrapper call with the largest max_retries reported exhaustion
C9_Witness ==
  /\ cfg.maxRetries = MaxRetriesBound
  /\ \E f \in Files : \E i \in 1..Len(hist[f]) : hist[f][i].out = "exhausted"

\* the retry loop stops at once on a non-retryable kind: it never waits for a
\* retry after such an error, and returns that very error
NonRetryableEndsLoop ==
  \A f \in Files :
    /\ task[f].pc = "wait" => GetErrorType(task[f].lastError) \notin NonRetryableTypes
    /\ \A i \in 1..Len(hist[f]) :
         /\ hist[f][i].out = "exhausted"
              => GetErrorType(Tail(hist[f][i].err)) \notin NonRetryableTypes
         /\ hist[f][i].out = "nonretryable"
              => /\ hist[f][i].err \in cfg.errs
                 /\ ~isRetryableError(hist[f][i].err)
         /\ (hist[f][i].out = "nonretryable" /\ i < Len(hist[f]))
              => hist[f][i+1].prov = hist[f][i].prov + 1

\* the last provider call of f ended on a non-retryable error and another
\* provider remains in the list
StoppedBeforeNext(f) ==
  /\ task[f].pc = "done"
  /\ hist[f] # <<>>
  /\ hist[f][Len(hist[f])].out = "nonretryable"
  /\ hist[f][Len(hist[f])].prov < cfg.nProv

\* C10 as stated: an error of kind API, Authentication, FileTooLarge or
\* Unsupported ends the retry loop at once with that same error, and the
\* engine then tries the next provider of the list.
C10_Claim ==
  /\ NonRetryableEndsLoop
  /\ \A f \in Files : ~StoppedBeforeNext(f)

\* C10 amended: the same, the next provider being tried unless the run was
\* cancelled in between.
C10_NonRetryableStops ==
  /\ NonRetryableEndsLoop
  /\ ~cancelled => \A f \in Files : ~StoppedBeforeNext(f)

\* max_retries >= 1, the first provider failed on its first attempt with a
\* non-retryable kind and the second provider was then called
C10_Witness ==
  /\ cfg.maxRetries >= 1 /\ cfg.autoRetry
  /\ \E f \in Files :
       /\ Len(hist[f]) >= 2
       /\ hist[f][1].out = "nonretryable" /\ hist[f][1].calls = 1
       /\ GetErrorType(hist[f][1].err) \in NonRetryableTypes
       /\ hist[f][2].prov = 2 /\ hist[f][2].calls >= 1

\* every provider of the list was invoked for descriptor f and failed
AllProvidersFailed(f) ==
  /\ cfg.nProv > 0
  /\ Len(hist[f]) = cfg.nProv
  /\ \A i \in 1..cfg.nProv : hist[f][i].prov = i /\ Failed(hist[f][i])

\* the failure Result of descriptor f: empty URL, empty Provider, an Error
\* stating that all providers failed and wrapping the last provider's error
AllFailedResult(f) ==
  ResultWith(f, FALSE, 0, Wrap("allfailed", hist[f][cfg.nProv].err), "")

\* C11: when every provider failed for a file, no Result is on the stream for
\* it other than the one failure Result (empty URL, empty Provider, Error
\* wrapping the last provider's error), that Result is there at most once,
\* and exactly once when the task has returned.
C11_AllFailedResult ==
  \A f \in Files :
    AllProvidersFailed(f) =>
      /\ \A r \in StreamResults : r.file = f => r = AllFailedResult(f)
      /\ ResultsFor(f) <= 1
      /\ task[f].pc = "done" => OnStream(AllFailedResult(f)) = 1

\* two providers failed with different errors, the second after retries, and
\* the one failure Result is out
C11_Witness ==
  \E f \in Files :
    /\ AllProvidersFailed(f)
    /\ cfg.nProv = 2
    /\ hist[f][1].err # hist[f][2].err
    /\ hist[f][2].calls > 1
    /\ task[f].pc = "done"
    /\ OnStream(AllFailedResult(f)) = 1

\* descriptors with the is-directory flag the scanner has put on fileCh
Directories == {f \in 1..Len(descs) : descs[f]}

\* C12: for a descriptor whose is-directory flag is set no upload task is
\* ever launched, no provider is invoked, and no Result and no ProgressInfo
\* carries its name.
C12_DirectoriesNeverScheduled ==
  \A f \in Directories :
    /\ task[f].pc = "idle"
    /\ hist[f] = <<>>
    /\ ResultsFor(f) = 0
    /\ \A i \in 1..Len(progressCh.buf) : progressCh.buf[i].file # f

\* the scanner emitted a directory and then a file under it, the dispatcher
\* received both, the file was uploaded and the run is over
C12_Witness ==
  /\ BothClosed /\ ~cancelled /\ fileCh.buf = <<>>
  /\ \E d \in Directories : \E f \in Produced :
       /\ d < f
       /\ \E r \in StreamResults : r.file = f /\ r.ok

\* C13: when the consumer never receives a progress event, a Read that finds
\* the progress buffer full still returns (the event is dropped), and the run
\* ends with every launched task returned, both channels closed and one
\* Result for every non-directory descriptor.
C13_ProgressNeverBlocks ==
  /\ \A f \in Files : (task[f].pc = "read") ~> (task[f].pc # "read")
  /\ <>(/\ BothClosed /\ AllReturned
        /\ \A f \in Produced : ResultsFor(f) = 1)

\* an upload that made more Read calls than the progress buffer holds, with
\* the buffer still full of unread events, has succeeded and its Result is out
C13_Witness ==
  /\ BothClosed
  /\ Len(progressCh.buf) = ProgressChCap
  /\ \E f \in Produced :
       /\ hist[f] # <<>>
       /\ hist[f][1].out = "ok"
       /\ hist[f][1].reads > ProgressChCap
       /\ OnStream(Result(f, TRUE, 1, Nil)) = 1

\* the wrapper calls concluded so far, over all files
WrapperCalls == {<<f, i>> : f \in Files, i \in 1..MaxProv} \cap
                {c \in Files \X (1..MaxProv) : c[2] <= Len(hist[c[1]])}

\* a wrapper call that was rejected with an error of kind t before the inner
\* provider was invoked
RejectedWith(h, t) == h.out = "invalid" /\ GetErrorType(h.err) = t /\ h.calls = 0

\* C14: with pre-upload validation and capability checks enabled, a file
\* larger than the advertised max size (max > 0) makes every wrapper call end
\* with a FileTooLarge error without invoking the inner provider; with max
\* size 0 no wrapper call is rejected for its size.
C14_SizeCheck ==
  (cfg.w.preValidate /\ cfg.w.checkCaps) =>
    /\ (cfg.w.maxSize > 0 /\ cfg.w.size > cfg.w.maxSize) =>
         /\ \A c \in WrapperCalls : RejectedWith(hist[c[1]][c[2]], "FileTooLarge")
         /\ \A f \in Files : task[f].pc \notin {"inner", "read", "wait"}
    /\ cfg.w.maxSize = 0 =>
         \A c \in WrapperCalls : ~RejectedWith(hist[c[1]][c[2]], "FileTooLarge")

\* a file of the largest size was rejected against a smaller positive max size
C14_Witness ==
  /\ cfg.w.preValidate /\ cfg.w.checkCaps
  /\ cfg.w.size = MaxSize /\ cfg.w.maxSize > 0 /\ cfg.w.maxSize < MaxSize
  /\ \E c \in WrapperCalls : RejectedWith(hist[c[1]][c[2]], "FileTooLarge")

\* the set contains the wildcard token
HasWildcard(exts) == \E ext \in exts : ToLower(ext) = <<"*">>

\* the lower-cased extension of a path: the text from its last dot on, none
\* when the path has no dot or ends with it
ExtensionOf(path) ==
  LET dots == {i \in 1..Len(path) :
                 path[i] = "." /\ \A j \in (i + 1)..Len(path) : path[j] # "."}
  IN  IF dots = {} \/ Len(path) \in dots THEN <<>>
      ELSE LET i == CHOOSE i \in dots : TRUE
           IN  [j \in 1..(Len(path) - i + 1) |-> Lower(path[i + j - 1])]

MatchesSome(path, exts) == \E ext \in exts : ToLower(ext) = ExtensionOf(path)

\* the runs C15 is about: validation and capability checks on, the size
\* within the adapter's limit
ExtensionChecked ==
  cfg.w.preValidate /\ cfg.w.checkCaps /\ ~(cfg.w.maxSize > 0 /\ cfg.w.size > cfg.w.maxSize)

\* C15 as stated: a set with the wildcard accepts every file, and any other
\* set (the empty one included) rejects with Unsupported, the inner provider
\* not invoked, exactly when the extension matches no element.
C15_Claim ==
  ExtensionChecked =>
    \A c \in WrapperCalls :
      LET h == hist[c[1]][c[2]]
      IN  IF HasWildcard(cfg.w.exts) THEN h.out # "invalid"
          ELSE RejectedWith(h, "Unsupported") <=> ~MatchesSome(cfg.w.path, cfg.w.exts)

\* C15 (amended): an empty set or a set with the wildcard accepts every
\* file; any other set rejects with Unsupported, the inner provider not
\* invoked, exactly when the lower-cased extension equals no lower-cased
\* element of the set.
C15_ExtensionCheck ==
  ExtensionChecked =>
    \A c \in WrapperCalls :
      LET h == hist[c[1]][c[2]]
      IN  IF HasWildcard(cfg.w.exts) \/ cfg.w.exts = {} THEN h.out # "invalid"
          ELSE /\ RejectedWith(h, "Unsupported") <=> ~MatchesSome(cfg.w.path, cfg.w.exts)
               /\ h.out = "invalid" => RejectedWith(h, "Unsupported")

\* a file with an extension was rejected by a set without the wildcard
C15_Witness ==
  /\ ExtensionChecked /\ ~HasWildcard(cfg.w.exts)
  /\ ExtensionOf(cfg.w.path) # <<>>
  /\ \E c \in WrapperCalls : RejectedWith(hist[c[1]][c[2]], "Unsupported")

\* C16: with validate_responses enabled, every wrapper call that returns a
\* nil error carries a non-nil response with a non-empty URL (a success of
\* the inner provider with an absent response or an empty URL having been
\* turned into an API error).
C16_Claim ==
  cfg.w.validateResp =>
    \A c \in WrapperCalls :
      LET h == hist[c[1]][c[2]]
      IN  h.err = Nil => ~h.resp.nil /\ h.resp.url # ""

\* the inner provider reported success with a response
InnerSucceededWith(h) == h.out \in {"ok", "badresponse"} /\ ~h.raw.nil

\* C17: with response enhancement enabled, a successful response with an
\* empty URL and a non-empty DownloadURL is returned with URL = DownloadURL
\* and a nil error (the backfill precedes response validation), and a
\* response with a non-empty URL keeps its URL.
C17_UrlBackfill ==
  cfg.w.enhance =>
    \A c \in WrapperCalls :
      LET h == hist[c[1]][c[2]]
      IN  InnerSucceededWith(h) =>
            /\ (h.raw.url = "" /\ h.raw.dl # "") =>
                 h.resp.url = h.raw.dl /\ h.out = "ok" /\ h.err = Nil
            /\ h.raw.url # "" => h.resp.url = h.raw.url /\ h.out = "ok"

\* a response without URL was backfilled and passed the enabled validation
C17_Witness ==
  /\ cfg.w.enhance /\ cfg.w.validateResp
  /\ \E c \in WrapperCalls :
       LET h == hist[c[1]][c[2]]
       IN  /\ InnerSucceededWith(h) /\ h.raw.url = "" /\ h.raw.dl = "D"
           /\ h.resp.url = "D" /\ h.err = Nil

\* C18: in the retry loop with retry_delay d the k-th retry (the attempt
\* after k failures) waits k * d: 1 * d before the first retry, 2 * d before
\* the second.
C18_Claim ==
  \A f \in Files :
    \A k \in 1..Len(task[f].waits) : task[f].waits[k] = k * cfg.w.retryDelay

\* C19: when ctx is done while a wrapper call is in a retry wait (already
\* when the wait begins, or during it), the call fails with a Temporary
\* error wrapping the cancellation and the inner provider is not invoked
\* again.
C19_Claim ==
  [][\A f \in Files :
       (task[f].pc = "wait" /\ gctx /\ task'[f] # task[f]) =>
         /\ task'[f].pc # "inner"
         /\ Len(hist'[f]) = Len(hist[f]) + 1
         /\ LET h == hist'[f][Len(hist'[f])]
            IN  /\ GetErrorType(h.err) = "Temporary"
                /\ Tail(h.err) = Canceled
                /\ h.resp.nil]_vars

\* every attempt of the wrapper call was made and failed with a retryable
\* error
AllAttemptsFailed(h) ==
  /\ cfg.autoRetry
  /\ Len(h.attemptErrs) = cfg.maxRetries + 1
  /\ \A i \in 1..Len(h.attemptErrs) : isRetryableError(h.attemptErrs[i])

\* C20: when all max_retries + 1 attempts fail with retryable errors, the
\* wrapper call returns a nil response and a Temporary error that wraps the
\* error of the last attempt and whose message counts max_retries + 1
\* attempts.
C20_ExhaustionError ==
  \A c \in WrapperCalls :
    LET h == hist[c[1]][c[2]]
    IN  AllAttemptsFailed(h) =>
          /\ h.resp.nil
          /\ h.calls = cfg.maxRetries + 1
          /\ h.err[1].t = "Temporary"
          /\ h.err[1].n = cfg.maxRetries + 1
          /\ Tail(h.err) = h.attemptErrs[Len(h.attemptErrs)]

\* a call was exhausted after a retry whose error differs from the first
\* attempt's
C20_Witness ==
  \E c \in WrapperCalls :
    LET h == hist[c[1]][c[2]]
    IN  /\ AllAttemptsFailed(h) /\ cfg.maxRetries >= 1
        /\ h.attemptErrs[1] # h.attemptErrs[Len(h.attemptErrs)]
        /\ h.err[1].t = "Temporary"

\* an error whose outermost layer a kind constructor built
BuiltByKind(e) == e # Nil /\ e[1].t \in ErrorTypes \ {"Unknown"}

\* C21: an error built by a kind constructor is flagged retryable
\* (IsRetryable) exactly for the kinds Network, Quota and Temporary, and the
\* wrapper's retry decision agrees with the flag: isRetryableError equals
\* it, and the retry loop goes on after a failed attempt exactly when the
\* flag is set.
C21_RetryableFlag ==
  /\ \A e \in cfg.errs :
       BuiltByKind(e) =>
         /\ IsRetryable(e) <=> e[1].t \in {"Network", "Quota", "Temporary"}
         /\ isRetryableError(e) <=> IsRetryable(e)
  /\ cfg.autoRetry =>
       \A c \in WrapperCalls :
         LET h == hist[c[1]][c[2]]
         IN  \A i \in 1..Len(h.attemptErrs) :
               BuiltByKind(h.attemptErrs[i]) =>
                 /\ i < Len(h.attemptErrs) => IsRetryable(h.attemptErrs[i])
                 /\ h.out = "nonretryable" /\ i = Len(h.attemptErrs) =>
                      ~IsRetryable(h.attemptErrs[i])
                 /\ h.out = "exhausted" => IsRetryable(h.attemptErrs[i])

\* a non-retryable kind whose message has a heuristic word and whose cause
\* is retryable ended the call at once; or a retryable kind over a
\* non-retryable cause was retried to exhaustion
C21_Witness ==
  \E c \in WrapperCalls :
    LET h == hist[c[1]][c[2]]
    IN  /\ cfg.autoRetry /\ cfg.maxRetries = 1 /\ h.attemptErrs # <<>>
        /\ LET e == h.attemptErrs[1]
           IN  /\ Len(e) = 2 /\ BuiltByKind(e)
               /\ \/ /\ h.out = "nonretryable" /\ e[1].w /\ IsRetryable(Tail(e))
                  \/ /\ h.out = "exhausted" /\ BuiltByKind(Tail(e))
                     /\ ~IsRetryable(Tail(e))

\* C22: every ProgressInfo emitted for a 0-byte file carries a well-defined
\* Percentage equal to 100.
C22_Claim ==
  cfg.w.size = 0 =>
    \A i \in 1..Len(progressCh.buf) :
      LET x == progressCh.buf[i].pct
      IN  x.kind = "finite" /\ x.num = 100 * x.den

\* C23: with config.Concurrency <= 0 the engine never crashes and never
\* leaves a discovered non-directory file waiting forever for a gate slot.
NeverCrashes == [](cfg.conc <= 0 => ~panicked)

NoFileWaitsForever ==
  (cfg.conc <= 0 /\ disp.pc = "acquire") ~> (disp.pc # "acquire")

C23_Claim == NeverCrashes /\ NoFileWaitsForever

\* the error is or wraps the cancellation error
WrapsCancellation(e) == \E i \in 1..Len(e) : e[i].t = "Canceled"

\* C24: no UploadResult whose Error is or wraps the cancellation error is
\* sent to the consumer: no scan-error Result, no 'all providers failed'
\* Result and no final 'upload failed' Result.
C24_Claim == \A r \in StreamResults : ~WrapsCancellation(r.err)

\* C25: when walking one entry fails, the error is put on the error
\* sequence and the scanner keeps going: the walk of an input path is never
\* given up while entries outside the failed subtree are unvisited, and the
\* later input paths are still walked.
C25_Claim ==
  /\ ~scan.more
  /\ (scan.pc = "done" /\ ~gctx) => scan.i > cfg.nPaths

PathsChecked ==
  \/ cmd.pc \in {"providers", "upload"}
  \/ cmd.pc = "failed" /\ cmd.err.msg # "no files or folders specified"

\* what validatePaths returned
PathsError == IF cmd.err.list # "" THEN cmd.err ELSE NoCmdError

\* the positions of the two path lists, and the order validatePaths is said
\* to check them in
Positions ==
  {<<"files", i>> : i \in 1..Len(cfg.files)}
    \cup {<<"folders", i>> : i \in 1..Len(cfg.folders)}

PathAt(pos) == IF pos[1] = "files" THEN cfg.files[pos[2]] ELSE cfg.folders[pos[2]]

Before(a, b) ==
  \/ a[1] = "files" /\ b[1] = "folders"
  \/ a[1] = b[1] /\ a[2] < b[2]

\* os.Stat cannot reach the path although it exists
Hidden(p) == p \in {"hiddenFile", "hiddenDir"}

\* the violation an error message names
NamedViolation(msg) ==
  CASE msg \in {"file does not exist", "directory does not exist"} -> "does not exist"
    [] msg \in {"error checking file", "error checking directory"} -> "cannot be checked"
    [] msg = "is a directory, but --file flag requires a file" -> "directory given as file"
    [] msg = "is a file, but --folder/-d flag requires a directory" -> "file given as folder"
    [] OTHER -> "none"

\* the type violation of a path that exists
WrongType(list, p) ==
  IF list = "files" THEN IsDir(p) ELSE ~IsDir(p)

TypeViolation(list) ==
  IF list = "files" THEN "directory given as file" ELSE "file given as folder"

\* C27 as stated: validatePaths returns nil exactly when every --file path
\* exists and is not a directory and every --folder path exists and is a
\* directory; otherwise its error is for the first offending path, files
\* before folders, and names one of: does not exist, directory given as file,
\* file given as folder.
C27_Claim ==
  PathsChecked =>
    LET bad == {pos \in Positions :
                  ~Exists(PathAt(pos)) \/ WrongType(pos[1], PathAt(pos))}
    IN  /\ PathsError = NoCmdError <=> bad = {}
        /\ bad # {} =>
             \E pos \in bad :
               /\ \A q \in bad : q = pos \/ Before(pos, q)
               /\ PathsError.list = pos[1] /\ PathsError.index = pos[2]
               /\ NamedViolation(PathsError.msg) =
                    IF ~Exists(PathAt(pos)) THEN "does not exist"
                                            ELSE TypeViolation(pos[1])

\* C27 amended: validatePaths returns nil exactly when os.Stat succeeds on
\* every path, no --file path is a directory and every --folder path is one;
\* otherwise its error is for the first offending path, files before folders,
\* and names the violation: does not exist, cannot be checked (os.Stat failed
\* for another reason), directory given as file, file given as folder.
C27_PathValidation ==
  PathsChecked =>
    LET bad == {pos \in Positions :
                  \/ ~Exists(PathAt(pos))
                  \/ Hidden(PathAt(pos))
                  \/ WrongType(pos[1], PathAt(pos))}
    IN  /\ PathsError = NoCmdError <=> bad = {}
        /\ bad # {} =>
             \E pos \in bad :
               /\ \A q \in bad : q = pos \/ Before(pos, q)
               /\ PathsError.list = pos[1] /\ PathsError.index = pos[2]
               /\ NamedViolation(PathsError.msg) =
                    IF ~Exists(PathAt(pos)) THEN "does not exist"
                    ELSE IF Hidden(PathAt(pos)) THEN "cannot be checked"
                    ELSE TypeViolation(pos[1])

\* validatePaths passed two --file paths and rejected the second --folder
\* path, which os.Stat could not check
C27_Witness ==
  /\ PathsChecked
  /\ Len(cfg.files) = 2
  /\ PathsError = CmdError("error checking directory", "folders", 2)

\* ---------------------------------------------------------------- C28
\* CreateProvidersFromNames has returned to runUpload in this run
FromNamesReturned ==
  cmd.pc \in {"upload", "failed"} /\ cmd.providerMode = "specified"

\* the error CreateProvidersFromNames returned
FactoryFailed == cmd.err.msg \in {"unknown providers", "unknown provider"}

\* the names given with --providers, as the factory compares them
Requested == {LowerName(cfg.providers[i]) : i \in 1..Len(cfg.providers)}

\* C28: without a configuration file (the providers are those of
\* setDefaults), CreateProvidersFromNames returns a provider for every
\* requested name when all requested names are known, and it fails only when
\* a requested name is unknown.
C28_Claim ==
  (FromNamesReturned /\ cfg.configProviders = DefaultProviders) =>
    /\ Requested \subseteq KnownProviders =>
         /\ ~FactoryFailed
         /\ \A n \in Requested :
              \E i \in 1..Len(cmd.providerList) : cmd.providerList[i] = n
    /\ FactoryFailed => ~(Requested \subseteq KnownProviders)

\* ---------------------------------------------------------------- C29
\* C29: a provider that fails every attempt with a retryable error is
\* attempted RetryAttempts + 1 times, RetryAttempts being the configured
\* retry attempts of the run (UploadConfig.RetryAttempts).
C29_Claim ==
  \A c \in WrapperCalls :
    LET h == hist[c[1]][c[2]]
    IN  h.out = "exhausted" => h.calls = cfg.retryAttempts + 1

\* ---------------------------------------------------------------- C30
\* a provider.Upload call of f's task is in progress: the inner adapter is
\* uploading, one of its reads of the file stream is reporting progress, or
\* the wrapper waits before a retry
InCall(f) == task[f].pc \in {"inner", "read", "wait"}

\* the provider attempts of f's task that have concluded are those of
\* providers 1..n in this order, one each
AttemptsInOrder(f) == \A i \in 1..Len(hist[f]) : hist[f][i].prov = i

\* C30: the provider attempts of one task are strictly sequential: while the
\* call to provider p is in progress, or the loop is about to try provider p,
\* the attempts of exactly the providers before p have concluded, one after
\* the other, each with an error; and once an attempt has succeeded no
\* further provider is tried.
C30_SequentialAttempts ==
  \A f \in Files :
    /\ AttemptsInOrder(f)
    /\ (InCall(f) \/ task[f].pc = "loop") =>
         /\ Len(hist[f]) = task[f].p - 1
         /\ \A i \in 1..Len(hist[f]) : hist[f][i].err # Nil
    /\ \A i \in 1..Len(hist[f]) : hist[f][i].err = Nil => i = Len(hist[f])

\* the call to the second provider is in progress after the first provider's
\* call returned an error
C30_Witness ==
  \E f \in Files :
    /\ task[f].pc = "inner" /\ task[f].p = 2
    /\ Len(hist[f]) = 1 /\ hist[f][1].calls >= 1 /\ hist[f][1].err # Nil

\* ---------------------------------------------------------------- C31
\* the task has just invoked provider p: the first call of its inner adapter
\* is in progress and has read nothing yet
AttemptBegins(f) ==
  task[f].pc = "inner" /\ task[f].calls = 1 /\ task[f].reads = 0

\* C31: every provider attempt of the fallback loop begins with the file at
\* offset 0 and a progress counter of 0, however much an earlier provider
\* read; an attempt whose seek failed never invoked the provider, and its
\* seek error is the last error of the loop.
C31_FreshAttempt ==
  \A f \in Files :
    /\ AttemptBegins(f) => task[f].offset = 0 /\ task[f].bytesRead = 0
    /\ \A i \in 1..Len(hist[f]) :
         hist[f][i].out = "seek" =>
           /\ hist[f][i].calls = 0 /\ hist[f][i].reads = 0
           /\ (i = Len(hist[f]) /\ task[f].pc = "loop") =>
                task[f].lastErr = Wrap("seek", Nil)

\* the second provider's attempt begins after the first provider read the
\* whole file and failed
C31_Witness ==
  \E f \in Files :
    /\ AttemptBegins(f) /\ task[f].p = 2
    /\ hist[f][1].reads = MaxReads /\ hist[f][1].err # Nil
    /\ cfg.w.size = MaxSize

\* ---------------------------------------------------------------- C32
\* the dispatcher launches a task for the descriptor it holds: g.Go(uploadFile)
Launches(f) == task[f].pc = "idle" /\ task'[f].pc = "open"

Synthetic(r) == r.file = 0 /\ r.err # Nil /\ r.err[1].t = "uploadfailed"

C34_Claim ==
  \A f \in Files :
    (task[f].pc = "inner" /\ task[f].reads = 0) => task[f].offset = 0

\* ---------------------------------------------------------------- C35
\* C35: over the Upload calls made on one uploader the progress channel is
\* closed at most once and no task sends a progress event on it once it is
\* closed.
C35_Claim ==
  [][progressCh.closed =>
       /\ ~(disp.pc # "done" /\ disp'.pc = "done")
       /\ ~(\E f \in Files : task[f].pc = "read" /\ disp' = disp
                               /\ ~panicked /\ panicked')]_vars

\* ---------------------------------------------------------------- C36
\* C36: a call of ConsistencyWrapper.Upload that returns an error returns a
\* nil response with it.
C36_Claim ==
  \A c \in WrapperCalls :
    LET h == hist[c[1]][c[2]]
    IN  h.err # Nil => h.resp.nil

\* ---------------------------------------------------------------- C37
\* C37: every ProgressInfo carries the descriptor's size as TotalBytes and a
\* BytesUploaded between 0 and TotalBytes, the count a task reports is the
\* number of bytes its progress reader has read, during one provider call
\* that count never decreases, and it is 0 when the next provider's call begins.
C37_ProgressBounds ==
  /\ [](/\ \A i \in 1..Len(progressCh.buf) :
             /\ progressCh.buf[i].total = cfg.w.size
             /\ progressCh.buf[i].bytes \in 0..progressCh.buf[i].total
        /\ \A f \in Files :
             /\ task[f].bytesRead \in 0..cfg.w.size
             /\ AttemptBegins(f) => task[f].bytesRead = 0)
  /\ [][\A f \in Files :
          /\ (InCall(f) /\ task'[f].pc \in {"inner", "read", "wait"}) =>
               task'[f].bytesRead >= task[f].bytesRead
          /\ (task[f].pc = "read" /\ task'[f].pc = "inner"
                /\ Len(progressCh'.buf) > Len(progressCh.buf)) =>
               progressCh'.buf[Len(progressCh'.buf)].bytes = task[f].bytesRead]_vars

\* the second provider's call has reported the whole file read, after the
\* first provider read from it too
C37_Witness ==
  \E f \in Files :
    /\ task[f].p = 2 /\ task[f].pc = "inner"
    /\ hist[f][1].reads > 0
    /\ task[f].bytesRead = MaxSize
    /\ progressCh.buf # <<>>
    /\ progressCh.buf[Len(progressCh.buf)].bytes = MaxSize

\* ---------------------------------------------------------------- C38
\* C38: when the consumer loop has returned because the result channel was
\* closed, every Result of the stream was handed to the sink and the sink's
\* Close was called exactly once.
C38_Claim ==
  (cons = "done" /\ ~cancelled /\ ~panicked) =>
    /\ resultCh.buf = <<>>
    /\ cmd.sinkCloses = 1

====
